---- MODULE Spec2Model ----
(***************************************************************************)
(* T-DNA insertion resolver of the tdna repository.                        *)
(*                                                                         *)
(* The three flat tables (gene annotation, confirmed insertions, insertion *)
(* locations) are parsed and queried by several implementations:           *)
(*   - the TypeScript engine  Web/utils/tdna.ts  (class TdnaData) and its   *)
(*     HTTP handler  Web/pages/api/tdna.ts ;                                *)
(*   - the R functions  R/getTDNAlines.R  and  rPackage/R/getTDNAlines.R ;  *)
(*   - the database-backed routes of  web/server/routes .                   *)
(* Strings are TLA+ strings; the string functions of the implementations   *)
(* (includes, split, toUpperCase, parseInt, Number, regular expressions)   *)
(* are operators computed character by character.                          *)
(***************************************************************************)
EXTENDS Integers, Sequences, FiniteSets, TLC

VARIABLES files, data, resp, tdna_env, global_env, run, page, db

vars == <<files, data, resp, tdna_env, global_env, run, page, db>>

(***************************************************************************)
(* Bounds of the model.                                                    *)
(***************************************************************************)
MaxGff == 2
MaxConf == 2
MaxLoc == 2
\* the most rows of tdna_positions, which the sample import grows at every run
MaxPositions == 6

(***************************************************************************)
(* JavaScript / R values that are not strings or integers.                 *)
(***************************************************************************)
\* NaN is an integer outside the range of every number of the tables, so that
\* it can be compared with numbers; every arithmetic use tests for it first.
NaN == -999999999
\* an array element or object property that does not exist
Undefined == "<undefined>"

(***************************************************************************)
(* String functions.                                                       *)
(***************************************************************************)
CharAt(s, i) == SubSeq(s, i, i)

Lower == "abcdefghijklmnopqrstuvwxyz"
Upper == "ABCDEFGHIJKLMNOPQRSTUVWXYZ"
Digits == "0123456789"

IsDigit(c) == \E i \in 1..10 : CharAt(Digits, i) = c

DigitVal(c) == (CHOOSE i \in 1..10 : CharAt(Digits, i) = c) - 1

UpperChar(c) ==
  IF \E i \in 1..26 : CharAt(Lower, i) = c
  THEN CharAt(Upper, CHOOSE i \in 1..26 : CharAt(Lower, i) = c)
  ELSE c

LowerChar(c) ==
  IF \E i \in 1..26 : CharAt(Upper, i) = c
  THEN CharAt(Lower, CHOOSE i \in 1..26 : CharAt(Upper, i) = c)
  ELSE c

RECURSIVE toUpperCase(_)
toUpperCase(s) ==
  IF Len(s) = 0 THEN s ELSE UpperChar(CharAt(s, 1)) \o toUpperCase(SubSeq(s, 2, Len(s)))

RECURSIVE toLowerCase(_)
toLowerCase(s) ==
  IF Len(s) = 0 THEN s ELSE LowerChar(CharAt(s, 1)) \o toLowerCase(SubSeq(s, 2, Len(s)))

\* sub occurs in s at index i
OccursAt(s, sub, i) ==
  /\ i >= 1
  /\ i + Len(sub) - 1 <= Len(s)
  /\ SubSeq(s, i, i + Len(sub) - 1) = sub

\* String.prototype.includes
Includes(s, sub) == \E i \in 1..(Len(s) + 1) : OccursAt(s, sub, i)

\* index of the first occurrence of sub in s, 0 when there is none
IndexOf(s, sub) ==
  IF Includes(s, sub)
  THEN CHOOSE i \in 1..(Len(s) + 1) :
         /\ OccursAt(s, sub, i)
         /\ \A j \in 1..(i - 1) : ~OccursAt(s, sub, j)
  ELSE 0

\* s.split(sep)[0]
SplitFirst(s, sep) ==
  IF IndexOf(s, sep) = 0 THEN s ELSE SubSeq(s, 1, IndexOf(s, sep) - 1)

\* length of the longest prefix of s made of digits
RECURSIVE DigitPrefixLen(_)
DigitPrefixLen(s) ==
  IF Len(s) = 0 \/ ~IsDigit(CharAt(s, 1)) THEN 0
  ELSE 1 + DigitPrefixLen(SubSeq(s, 2, Len(s)))

RECURSIVE DigitsValue(_)
DigitsValue(s) ==
  IF Len(s) = 0 THEN 0
  ELSE 10 * DigitsValue(SubSeq(s, 1, Len(s) - 1)) + DigitVal(CharAt(s, Len(s)))

RECURSIVE TrimLeft(_)
TrimLeft(s) ==
  IF Len(s) > 0 /\ CharAt(s, 1) = " " THEN TrimLeft(SubSeq(s, 2, Len(s))) ELSE s

RECURSIVE TrimRight(_)
TrimRight(s) ==
  IF Len(s) > 0 /\ CharAt(s, Len(s)) = " " THEN TrimRight(SubSeq(s, 1, Len(s) - 1)) ELSE s

Trim(s) == TrimRight(TrimLeft(s))

\* parseInt(s, 10): leading blanks, an optional sign, then the longest run
\* of digits; NaN when there is no digit.
parseInt(s) ==
  IF s = Undefined THEN NaN
  ELSE LET t == TrimLeft(s)
           neg == Len(t) > 0 /\ CharAt(t, 1) = "-"
           sgn == Len(t) > 0 /\ (CharAt(t, 1) = "-" \/ CharAt(t, 1) = "+")
           u == IF sgn THEN SubSeq(t, 2, Len(t)) ELSE t
           n == DigitPrefixLen(u)
       IN IF n = 0 THEN NaN
          ELSE IF neg THEN 0 - DigitsValue(SubSeq(u, 1, n))
          ELSE DigitsValue(SubSeq(u, 1, n))

\* Number(s) on the decimal integer literals of the tables: the whole
\* trimmed string has to be a number; the empty string is 0.
Number(s) ==
  IF s = Undefined THEN NaN
  ELSE LET t == Trim(s)
           neg == Len(t) > 0 /\ CharAt(t, 1) = "-"
           sgn == Len(t) > 0 /\ (CharAt(t, 1) = "-" \/ CharAt(t, 1) = "+")
           u == IF sgn THEN SubSeq(t, 2, Len(t)) ELSE t
       IN IF Len(t) = 0 THEN 0
          ELSE IF Len(u) = 0 \/ DigitPrefixLen(u) # Len(u) THEN NaN
          ELSE IF neg THEN 0 - DigitsValue(u)
          ELSE DigitsValue(u)

(***************************************************************************)
(* Sequence functions.                                                     *)
(***************************************************************************)
\* the elements of s at the indices in idx, in ascending index order
RECURSIVE AtIndices(_, _)
AtIndices(s, idx) ==
  IF idx = {} THEN <<>>
  ELSE LET m == CHOOSE i \in idx : \A j \in idx : j <= i
       IN Append(AtIndices(s, idx \ {m}), s[m])

Range(s) == {s[i] : i \in 1..Len(s)}

\* all sequences over S of length at most n
SeqUpTo(S, n) == UNION {[1..k -> S] : k \in 0..n}

Min(S) == CHOOSE x \in S : \A y \in S : x <= y
Max(S) == CHOOSE x \in S : \A y \in S : y <= x

\* r[i] of a JavaScript array: undefined beyond its length
Field(r, i) == IF i <= Len(r) THEN r[i] ELSE Undefined

(***************************************************************************)
(* Web/utils/tdna.ts: parsing of the three tables.  A raw table is the     *)
(* sequence of its rows, a row the sequence of its tab-separated fields    *)
(* (parseTSV); the confirmed table is read with its header                 *)
(* Target Gene, T-DNA line, Hit region, HM, ABRC.                          *)
(***************************************************************************)
parseGffRow(r) ==
  [chr |-> Field(r, 1), source |-> Field(r, 2), type |-> Field(r, 3),
   start |-> Number(Field(r, 4)), stop |-> Number(Field(r, 5)),
   strand |-> Field(r, 7), info |-> Field(r, 9)]

parseGff(rows) == [i \in 1..Len(rows) |-> parseGffRow(rows[i])]

Eligible(r) ==
  /\ Field(r, 3) = "Exon"
  /\ Field(r, 4) \in {"HMc", "HMn"}
  /\ Field(r, 5) # "NotSent"

parseConfirmedRow(r) ==
  [TargetGene |-> toUpperCase(Field(r, 1)), line |-> Field(r, 2),
   HitRegion |-> Field(r, 3), HM |-> Field(r, 4), ABRC |-> Field(r, 5)]

parseConfirmed(rows) ==
  LET kept == SelectSeq(rows, Eligible)
  IN [i \in 1..Len(kept) |-> parseConfirmedRow(kept[i])]

\* a variant that takes the number after the first dash
extractPrimaryPosition_AfterDash(field) ==
  LET head == SplitFirst(field, " vs ")
      k == IndexOf(head, "-")
  IN parseInt(IF k = 0 THEN head ELSE SubSeq(head, k + 1, Len(head)))

extractPrimaryPosition(field) == parseInt(SplitFirst(SplitFirst(field, " vs "), "-"))

parseLocationRow(r) ==
  [V1 |-> Field(r, 1), chr |-> Field(r, 4), pos |-> extractPrimaryPosition(Field(r, 5))]

parseLocation(rows) == [i \in 1..Len(rows) |-> parseLocationRow(rows[i])]

\* TdnaData.load
load(f) ==
  [gff |-> parseGff(f.gff), confirmed |-> parseConfirmed(f.confirmed),
   location |-> parseLocation(f.location)]

(***************************************************************************)
(* Web/utils/tdna.ts: the queries of class TdnaData on a loaded handle d.  *)
(***************************************************************************)
\* this.confirmed.filter(c => c['Target Gene'] === gene)
GeneConfirmed(d, gene) == SelectSeq(d.confirmed, LAMBDA c : c.TargetGene = gene)

\* Array.from(new Set(geneconfirmed.map(g => g['T-DNA line'])))
LinesOf(gc) ==
  AtIndices([i \in 1..Len(gc) |-> gc[i].line],
            {i \in 1..Len(gc) : \A j \in 1..(i - 1) : gc[j].line # gc[i].line})

\* g.info.includes(`ID=${gene}`)
InfoMatches(info, gene) == Includes(info, "ID=" \o gene)

RegionTypes == {"CDS", "five_prime_UTR", "three_prime_UTR"}

GeneGff(d, gene) ==
  SelectSeq(d.gff, LAMBDA g : InfoMatches(g.info, gene) /\ g.type \in RegionTypes)

\* a variant whose loop stops before c.stop
CdsRange_HalfOpen(c) == IF c.start = NaN \/ c.stop = NaN THEN {} ELSE c.start..(c.stop - 1)

\* for (let i = c.start; i <= c.stop; i++) cdspos.add(i)
CdsRange(c) == IF c.start = NaN \/ c.stop = NaN THEN {} ELSE c.start..c.stop

CdsPos(d, gene) ==
  LET cds == SelectSeq(GeneGff(d, gene), LAMBDA g : g.type = "CDS")
  IN UNION {CdsRange(cds[i]) : i \in 1..Len(cds)}

\* lines.some(l => loc.V1.includes(l))
LabelMatches(label, lines) == \E i \in 1..Len(lines) : Includes(label, lines[i])

LocationMatches(d, lines) == SelectSeq(d.location, LAMBDA loc : LabelMatches(loc.V1, lines))

\* matches.forEach(m => { if (!uniq.has(m.V1)) uniq.set(m.V1, ...) })
Uniq(matches) ==
  AtIndices(matches,
            {i \in 1..Len(matches) : \A j \in 1..(i - 1) : matches[j].V1 # matches[i].V1})

\* cdspos.has(pos)
InCds(pos, cdspos) == pos # NaN /\ pos \in cdspos

Filtered(d, gene) ==
  LET lines == LinesOf(GeneConfirmed(d, gene))
      cdspos == CdsPos(d, gene)
  IN SelectSeq(Uniq(LocationMatches(d, lines)), LAMBDA m : InCds(m.pos, cdspos))

getTDNAlines(d, gene) ==
  IF Len(GeneConfirmed(d, gene)) = 0 THEN <<>>
  ELSE LET f == Filtered(d, gene) IN [i \in 1..Len(f) |-> f[i].V1]

\* geneconfirmed.find(c => c['T-DNA line'] === lineId)
\* the result is the sequence of the rows found: empty for undefined
FindConfirmed(gc, lineId) ==
  LET idx == {i \in 1..Len(gc) : gc[i].line = lineId}
  IN IF idx = {} THEN <<>> ELSE <<gc[Min(idx)]>>

\* confirmedData?.X || 'Unknown'
OrUnknown(v) == IF v = Undefined \/ v = "" THEN "Unknown" ELSE v

Detail(gc, m) ==
  LET c == FindConfirmed(gc, m.V1)
  IN [lineId |-> m.V1, chromosome |-> m.chr, position |-> m.pos,
      hitRegion |-> IF c = <<>> THEN "Unknown" ELSE OrUnknown(c[1].HitRegion),
      hm |-> IF c = <<>> THEN "Unknown" ELSE OrUnknown(c[1].HM),
      abrc |-> IF c = <<>> THEN "Unknown" ELSE OrUnknown(c[1].ABRC)]

getTDNALineDetails(d, gene) ==
  IF Len(GeneConfirmed(d, gene)) = 0 THEN <<>>
  ELSE LET f == Filtered(d, gene)
           gc == GeneConfirmed(d, gene)
       IN [i \in 1..Len(f) |-> Detail(gc, f[i])]

BundleTypes == {"gene", "CDS", "five_prime_UTR", "three_prime_UTR", "exon"}

GeneFeatures(d, gene) ==
  SelectSeq(d.gff, LAMBDA g : InfoMatches(g.info, gene) /\ g.type \in BundleTypes)

\* Math.min(...) / Math.max(...): NaN as soon as one argument is NaN
MathMin(S) == IF NaN \in S THEN NaN ELSE Min(S)
MathMax(S) == IF NaN \in S THEN NaN ELSE Max(S)

\* the value null of getGeneData
NullGeneData == [isNull |-> TRUE]

getGeneData(d, gene) ==
  LET gf == GeneFeatures(d, gene)
  IN IF Len(gf) = 0 THEN NullGeneData
     ELSE [isNull |-> FALSE, gene |-> gene, chromosome |-> gf[1].chr,
           start |-> MathMin({gf[i].start : i \in 1..Len(gf)}),
           end |-> MathMax({gf[i].stop : i \in 1..Len(gf)}),
           strand |-> gf[1].strand, features |-> gf]

(***************************************************************************)
(* Web/utils/tdna.ts: the module-level singleton  data  and getData().     *)
(* getData assigns the new TdnaData to  data  before load() runs; load     *)
(* assigns gff, confirmed and location in this order, and parseLocation    *)
(* throws on a row without a fifth field (r[4] is undefined).              *)
(***************************************************************************)
NullData == [isNull |-> TRUE, gff |-> <<>>, confirmed |-> <<>>, location |-> <<>>]

LocationThrows(rows) == \E i \in 1..Len(rows) : Len(rows[i]) < 5

getDataThrows == data.isNull /\ LocationThrows(files.location)

\* a variant whose handle loses a location row at every call
getData_DropLocation ==
  IF ~data.isNull
  THEN [data EXCEPT !.location = IF Len(@) = 0 THEN @ ELSE Tail(@)]
  ELSE IF LocationThrows(files.location)
       THEN [isNull |-> FALSE, gff |-> parseGff(files.gff),
             confirmed |-> parseConfirmed(files.confirmed), location |-> <<>>]
       ELSE [isNull |-> FALSE] @@ load(files)

getData ==
  IF ~data.isNull THEN data
  ELSE IF LocationThrows(files.location)
       THEN [isNull |-> FALSE, gff |-> parseGff(files.gff),
             confirmed |-> parseConfirmed(files.confirmed), location |-> <<>>]
       ELSE [isNull |-> FALSE] @@ load(files)

\* g.info.includes(...) throws on a row without a ninth field
InfoThrows(d) == \E i \in 1..Len(d.gff) : d.gff[i].info = Undefined

LinesThrows(d, gene) == Len(GeneConfirmed(d, gene)) > 0 /\ InfoThrows(d)

(***************************************************************************)
(* The tables on disk and the queries asked.                               *)
(***************************************************************************)
GffRow(type, start, stop, info) == <<"Chr1", "Araport11", type, start, stop, ".", "+", ".", info>>

ConfRow(gene, line, hit, hm, abrc) == <<gene, line, hit, hm, abrc>>

LocRow(label, field) == <<label, "x", "y", "Chr1", field>>

GffRows ==
  { GffRow("gene", "1", "4", "ID=AT1G25320"),
    GffRow("CDS", "x", "3", "ID=AT1G25320"),
    <<"Chr1", "Araport11", "CDS", "2", "3">>,
    GffRow("CDS", "2", "3", "ID=AT1G25320"),
    GffRow("CDS", "5", "5", "ID=AT1G25320:CDS:2;Parent=AT1G25320"),
    GffRow("CDS", "2", "2", "ID=AT1G253200"),
    GffRow("exon", "1", "4", "ID=AT1G25320:exon:1;Parent=AT1G25320"),
    GffRow("gene", "1", "9", "ID=AT1G20330") }

ConfRows ==
  { ConfRow("AT1G25320", "SALK_1", "Exon", "HMc", "Sent"),
    ConfRow("AT1G25320", "SALK_10", "Exon", "HMn", "Sent"),
    ConfRow("At1g25320", "SALK_1", "Exon", "HMc", "Sent"),
    ConfRow("AT1G25320", "SALK_10", "Intron", "HMc", "Sent"),
    ConfRow("AT1G25320", "SALK_10", "Exon", "HT", "Sent"),
    ConfRow("AT1G25320", "SALK_10", "Exon", "HMc", "NotSent"),
    ConfRow("AT1G2532", "SALK_1", "Exon", "HMc", "Sent") }

LocRows ==
  { LocRow("SALK_1", "2-3 vs 0-0"),
    LocRow("SALK_1", "4-5 vs 0-0"),
    LocRow("SALK_10", "3-4 vs 0-0"),
    LocRow("SALK_10", "9-9 vs 0-0"),
    LocRow("SALK_1.1.x", "2-3 vs 0-0"),
    LocRow("SALK_1", "x-3 vs 0-0"),
    <<"SALK_1", "x", "y", "Chr2", "3-4 vs 0-0">>,
    <<"SALK_1">> }

BaseGff == << GffRow("gene", "1", "4", "ID=AT1G25320"), GffRow("CDS", "2", "3", "ID=AT1G25320") >>

BaseConf == << ConfRow("AT1G25320", "SALK_1", "Exon", "HMc", "Sent") >>

BaseLoc == << LocRow("SALK_1", "2-3 vs 0-0"), LocRow("SALK_10", "3-4 vs 0-0") >>

\* the scenario of the documentation: gene AT1G25320, line SALK_019496
ScenarioFiles ==
  [gff |-> << GffRow("gene", "8863550", "8866320", "ID=AT1G25320"),
              GffRow("CDS", "8863750", "8866120", "ID=AT1G25320") >>,
   confirmed |-> << ConfRow("AT1G25320", "SALK_019496", "Exon", "HMc", "Sent") >>,
   location |-> << LocRow("SALK_019496.1.x", "8864721-8864722 vs 0-0") >>]

FileSets ==
  { [gff |-> BaseGff, confirmed |-> BaseConf, location |-> l] : l \in SeqUpTo(LocRows, MaxLoc) }
  \cup
  { [gff |-> g, confirmed |-> BaseConf, location |-> BaseLoc] : g \in SeqUpTo(GffRows, MaxGff) }
  \cup
  { [gff |-> BaseGff, confirmed |-> c, location |-> BaseLoc] : c \in SeqUpTo(ConfRows, MaxConf) }
  \cup
  { ScenarioFiles }

Queries == {"AT1G25320", "at1g25320", "AT1G2532", "AT1G20330"}

NullBundle == [isNull |-> TRUE]

\* the R package environment .tdna_env before loadTDNAdata()
EmptyTdnaEnv ==
  [names |-> {}, gff |-> <<>>, confirmed_exon_hom_sent |-> <<>>, location |-> <<>>]

\* the R global environment of a fresh session; corrupt holds the names of
\* the objects whose access raises an error
EmptyGlobalEnv ==
  [names |-> {}, corrupt |-> {}, gff |-> <<>>, confirmed |-> <<>>,
   confirmed__exon_hom_sent |-> <<>>, location |-> <<>>]

\* no import or start script running
NoRun == [script |-> "none"]

\* no client page open
NoPage == [open |-> FALSE]

NoResp ==
  [op |-> "none", gene |-> "", region |-> {}, threw |-> FALSE, error |-> "", status |-> 0,
   lines |-> <<>>, details |-> <<>>, geneData |-> NullGeneData,
   rows |-> <<>>, bundle |-> NullBundle]

\* the tables genes, gene_features, tdna_lines and tdna_positions before any import
EmptyDb == [genes |-> <<>>, features |-> <<>>, lines |-> <<>>, positions |-> <<>>]

Init ==
  /\ files \in FileSets
  /\ data = NullData
  /\ resp = NoResp
  /\ tdna_env = EmptyTdnaEnv
  /\ global_env = EmptyGlobalEnv
  /\ run = NoRun
  /\ page = NoPage
  /\ db = EmptyDb

(***************************************************************************)
(* Calls of the methods of TdnaData on the handle of getData().            *)
(***************************************************************************)
CallGetTDNAlines(g) ==
  /\ data' = getData
  /\ resp' = IF getDataThrows \/ LinesThrows(data', g)
             THEN [NoResp EXCEPT !.op = "getTDNAlines", !.gene = g, !.threw = TRUE]
             ELSE [NoResp EXCEPT !.op = "getTDNAlines", !.gene = g,
                                 !.lines = getTDNAlines(data', g)]
  /\ UNCHANGED <<files, tdna_env, global_env, run, page, db>>

CallGetTDNALineDetails(g) ==
  /\ data' = getData
  /\ resp' = IF getDataThrows \/ LinesThrows(data', g)
             THEN [NoResp EXCEPT !.op = "getTDNALineDetails", !.gene = g, !.threw = TRUE]
             ELSE [NoResp EXCEPT !.op = "getTDNALineDetails", !.gene = g,
                                 !.details = getTDNALineDetails(data', g)]
  /\ UNCHANGED <<files, tdna_env, global_env, run, page, db>>

CallGetGeneData(g) ==
  /\ data' = getData
  /\ resp' = IF getDataThrows \/ InfoThrows(data')
             THEN [NoResp EXCEPT !.op = "getGeneData", !.gene = g, !.threw = TRUE]
             ELSE [NoResp EXCEPT !.op = "getGeneData", !.gene = g,
                                 !.geneData = getGeneData(data', g)]
  /\ UNCHANGED <<files, tdna_env, global_env, run, page, db>>

(***************************************************************************)
(* Web/pages/api/tdna.ts: the HTTP handler; q is the query parameter gene. *)
(* req.query.gene is a string, undefined when the parameter is missing, or *)
(* an array of strings when the parameter is repeated; an array has no     *)
(* method toUpperCase, and the call is made outside the try block.         *)
(***************************************************************************)
ArrayParam == "<array>"

handler(q) ==
  LET gene == IF q = Undefined THEN Undefined ELSE toUpperCase(q)
  IN /\ IF q = ArrayParam
        THEN /\ resp' = [NoResp EXCEPT !.op = "handler", !.gene = q, !.threw = TRUE,
                                       !.status = 500]
             /\ data' = data
        ELSE IF gene = Undefined \/ gene = ""
        THEN /\ resp' = [NoResp EXCEPT !.op = "handler", !.gene = q, !.status = 400]
             /\ data' = data
        ELSE /\ data' = getData
             /\ resp' =
                  IF getDataThrows \/ LinesThrows(data', gene) \/ InfoThrows(data')
                  THEN [NoResp EXCEPT !.op = "handler", !.gene = q, !.status = 500]
                  ELSE IF Len(getTDNAlines(data', gene)) = 0
                  THEN [NoResp EXCEPT !.op = "handler", !.gene = q, !.status = 404]
                  ELSE [NoResp EXCEPT !.op = "handler", !.gene = q, !.status = 200,
                                      !.lines = getTDNAlines(data', gene),
                                      !.details = getTDNALineDetails(data', gene),
                                      !.geneData = getGeneData(data', gene)]
     /\ UNCHANGED <<files, tdna_env, global_env, run, page, db>>

Next ==
  \/ \E g \in Queries : CallGetTDNAlines(g)
  \/ \E g \in Queries : CallGetTDNALineDetails(g)
  \/ \E g \in Queries : CallGetGeneData(g)
  \/ \E q \in Queries \cup {Undefined, "", ArrayParam} : handler(q)

Spec == Init /\ [][Next]_vars

(***************************************************************************)
(* Vocabulary of the properties.                                           *)
(***************************************************************************)
IsAlnum(c) == IsDigit(c) \/ (\E i \in 1..26 : CharAt(Lower, i) = c \/ CharAt(Upper, i) = c)

\* id is a full leading token sequence of label: label is id, or id followed
\* by a delimiter and a suffix
Identifies(label, id) ==
  /\ Len(id) > 0
  /\ OccursAt(label, id, 1)
  /\ Len(label) > Len(id) => ~IsAlnum(CharAt(label, Len(id) + 1))

\* the feature with attributes info belongs to gene: the value of its ID=
\* attribute is the gene identifier up to letter case, alone or followed by
\* a delimiter and a sub-feature suffix
FeatureOfGene(info, gene) ==
  /\ info # Undefined
  /\ OccursAt(info, "ID=", 1)
  /\ Identifies(toUpperCase(SubSeq(info, 4, Len(info))), toUpperCase(gene))

\* the lines of the eligible confirmed rows of gene in the handle d
EligibleLines(d, gene) ==
  {d.confirmed[i].line : i \in {j \in 1..Len(d.confirmed) : d.confirmed[j].TargetGene = gene}}

\* the closed CDS intervals of gene in the handle d
CdsOfGene(d, gene) ==
  {d.gff[i] : i \in {j \in 1..Len(d.gff) :
      d.gff[j].type = "CDS" /\ FeatureOfGene(d.gff[j].info, gene)}}

InSomeCds(pos, cds) == \E c \in cds : c.start # NaN /\ c.stop # NaN /\ c.start <= pos /\ pos <= c.stop

DetailsAnswered == resp.op = "getTDNALineDetails" /\ ~resp.threw

LinesAnswered == resp.op = "getTDNAlines" /\ ~resp.threw

(***************************************************************************)
(* C1: when SALK_1 is an eligible confirmed line of the gene and SALK_10   *)
(* is not, the location row labelled SALK_10 is never in the result for    *)
(* the gene, whatever its position.                                        *)
(***************************************************************************)
C1_AnchoredLineMatching ==
  /\ (DetailsAnswered /\ "SALK_1" \in EligibleLines(data, resp.gene)
                      /\ "SALK_10" \notin EligibleLines(data, resp.gene))
       => \A i \in 1..Len(resp.details) : resp.details[i].lineId # "SALK_10"
  /\ (LinesAnswered /\ "SALK_1" \in EligibleLines(data, resp.gene)
                    /\ "SALK_10" \notin EligibleLines(data, resp.gene))
       => \A i \in 1..Len(resp.lines) : resp.lines[i] # "SALK_10"

(***************************************************************************)
(* C2: the position of every insertion returned for a gene lies inside a   *)
(* CDS interval [start, end] of that gene.                                 *)
(***************************************************************************)
C2_OverlapInvariant ==
  DetailsAnswered =>
    \A i \in 1..Len(resp.details) :
      InSomeCds(resp.details[i].position, CdsOfGene(data, resp.gene))

(***************************************************************************)
(* C3: the loaded confirmed table holds exactly the eligible rows of the   *)
(* file, and every line returned for a gene identifies a retained row      *)
(* whose target gene is that gene.                                         *)
(***************************************************************************)
C3_OnlyEligibleSurfaced ==
  /\ ~data.isNull =>
       /\ Len(data.confirmed) = Cardinality({i \in 1..Len(files.confirmed) : Eligible(files.confirmed[i])})
       /\ \A i \in 1..Len(data.confirmed) :
            /\ data.confirmed[i].HitRegion = "Exon"
            /\ data.confirmed[i].HM \in {"HMc", "HMn"}
            /\ data.confirmed[i].ABRC # "NotSent"
  /\ DetailsAnswered =>
       \A i \in 1..Len(resp.details) :
         \E l \in EligibleLines(data, resp.gene) : Identifies(resp.details[i].lineId, l)

C5_CaseInsensitive ==
  LinesAnswered => resp.lines = getTDNAlines(data, toUpperCase(resp.gene))

(***************************************************************************)
(* C6: only features whose ID= token is the queried identifier (up to      *)
(* letter case) are matched: a query for AT1G2532 matches no feature with  *)
(* ID=AT1G25320, in the gene bounds as in the CDS positions.               *)
(***************************************************************************)
C6_ExactFeatureMatch ==
  /\ (resp.op = "getGeneData" /\ ~resp.threw /\ ~resp.geneData.isNull) =>
       \A i \in 1..Len(resp.geneData.features) :
         FeatureOfGene(resp.geneData.features[i].info, resp.gene)
  /\ (DetailsAnswered /\ \A i \in 1..Len(data.gff) : ~FeatureOfGene(data.gff[i].info, resp.gene))
       => resp.details = <<>>

(***************************************************************************)
(* C8: the response for a gene that is in the annotation and has no        *)
(* insertion is a success with empty arrays, never an error.               *)
(***************************************************************************)
C8_EmptyIsNotAnError ==
  (/\ resp.op = "handler"
   /\ resp.gene # Undefined
   /\ \E i \in 1..Len(data.gff) : FeatureOfGene(data.gff[i].info, resp.gene)
   /\ getTDNALineDetails(data, toUpperCase(resp.gene)) = <<>>
   /\ ~InfoThrows(data) /\ Len(data.location) = Len(files.location))
    => resp.status = 200 /\ resp.lines = <<>> /\ resp.details = <<>>

(***************************************************************************)
(* C10: every distinct recorded position of an eligible line that lies     *)
(* inside the CDS of the gene produces a match, whatever the order of the  *)
(* rows of the location table.                                             *)
(***************************************************************************)
C10_AllDistinctPositions ==
  DetailsAnswered =>
    \A k \in 1..Len(data.location) :
      (/\ \E l \in EligibleLines(data, resp.gene) : Identifies(data.location[k].V1, l)
       /\ InCds(data.location[k].pos, CdsPos(data, resp.gene)))
        => \E i \in 1..Len(resp.details) :
             /\ resp.details[i].lineId = data.location[k].V1
             /\ resp.details[i].position = data.location[k].pos

(***************************************************************************)
(* web/data_import: the import scripts fill the database tables from the   *)
(* same files.  bulkCreate(..., {ignoreDuplicates: true}) keeps the first  *)
(* row of each primary key.                                                *)
(***************************************************************************)
\* attributes.match(/KEY([^;]+)/): the sequence holding the captured group,
\* empty when there is no match
AttrMatch(attributes, key) ==
  LET starts == {i \in 1..Len(attributes) :
                   /\ OccursAt(attributes, key, i)
                   /\ i + Len(key) <= Len(attributes)
                   /\ CharAt(attributes, i + Len(key)) # ";"}
  IN IF starts = {} THEN <<>>
     ELSE LET b == Min(starts) + Len(key)
              ends == {j \in b..Len(attributes) :
                         /\ \A k \in b..j : CharAt(attributes, k) # ";"
                         /\ (j = Len(attributes) \/ CharAt(attributes, j + 1) = ";")}
          IN <<SubSeq(attributes, b, Min(ends))>>

\* s.match(/^AT[1-5]G\d+$/)
IsAtGeneId(s) ==
  /\ Len(s) >= 5
  /\ SubSeq(s, 1, 2) = "AT"
  /\ CharAt(s, 3) \in {"1", "2", "3", "4", "5"}
  /\ CharAt(s, 4) = "G"
  /\ DigitPrefixLen(SubSeq(s, 5, Len(s))) = Len(s) - 4

\* Convert to uppercase for Arabidopsis genes
NormalizeId(id) == IF IsAtGeneId(toUpperCase(id)) THEN toUpperCase(id) ELSE id

FeatureTypes == {"exon", "CDS", "five_prime_UTR", "three_prime_UTR"}

\* the rows of parseGFF that are read: not a comment, at least 9 fields
GffDataRows(rows) ==
  SelectSeq(rows, LAMBDA r : Len(r) >= 9 /\ ~OccursAt(r[1], "#", 1))

ImportGenes(rows) ==
  LET rs == SelectSeq(GffDataRows(rows), LAMBDA r : r[3] = "gene" /\ AttrMatch(r[9], "ID=") # <<>>)
      gs == [i \in 1..Len(rs) |->
               [gene_id |-> NormalizeId(AttrMatch(rs[i][9], "ID=")[1]), chromosome |-> rs[i][1],
                start_position |-> parseInt(rs[i][4]), end_position |-> parseInt(rs[i][5]),
                strand |-> rs[i][7]]]
  IN AtIndices(gs, {i \in 1..Len(gs) : \A j \in 1..(i - 1) : gs[j].gene_id # gs[i].gene_id})

ImportFeatures(rows) ==
  LET rs == SelectSeq(GffDataRows(rows),
                      LAMBDA r : r[3] \in FeatureTypes /\ AttrMatch(r[9], "Parent=") # <<>>)
  IN [i \in 1..Len(rs) |->
        [feature_id |-> i, gene_id |-> NormalizeId(AttrMatch(rs[i][9], "Parent=")[1]),
         chromosome |-> rs[i][1], type |-> rs[i][3],
         start_position |-> parseInt(rs[i][4]), end_position |-> parseInt(rs[i][5]),
         strand |-> rs[i][7]]]

\* parseConfirmedTDNA: the fields are trimmed, then filtered as at load time
TrimmedEligible(r) ==
  /\ Len(r) >= 5
  /\ Trim(r[3]) = "Exon"
  /\ Trim(r[4]) \in {"HMc", "HMn"}
  /\ Trim(r[5]) # "NotSent"

ImportLines(rows) ==
  LET rs == SelectSeq(rows, TrimmedEligible)
      ls == [i \in 1..Len(rs) |->
               [line_id |-> Trim(rs[i][2]), target_gene |-> toUpperCase(Trim(rs[i][1])),
                hit_region |-> Trim(rs[i][3]), homozygosity_status |-> Trim(rs[i][4]),
                stock_center_status |-> Trim(rs[i][5])]]
  IN AtIndices(ls, {i \in 1..Len(ls) : \A j \in 1..(i - 1) : ls[j].line_id # ls[i].line_id})

\* fields[1]?.match(/Chr([0-9]+)/i) || ["", "1"]
ChrOf(field) ==
  LET u == toUpperCase(field)
      starts == {i \in 1..Len(u) : OccursAt(u, "CHR", i) /\ DigitPrefixLen(SubSeq(u, i + 3, Len(u))) > 0}
  IN IF starts = {} THEN "Chr1"
     ELSE LET b == Min(starts) + 3
          IN "Chr" \o SubSeq(u, b, b + DigitPrefixLen(SubSeq(u, b, Len(u))) - 1)

\* parseTDNAPositions: only the rows whose label is an imported line_id
ImportPositions(rows, lines) ==
  LET ids == {lines[i].line_id : i \in 1..Len(lines)}
      rs == SelectSeq(rows, LAMBDA r : /\ Len(r) >= 5
                                       /\ Trim(r[1]) \in ids
                                       /\ extractPrimaryPosition(Trim(r[5])) # NaN)
  IN [i \in 1..Len(rs) |->
        [position_id |-> i, line_id |-> Trim(rs[i][1]), chromosome |-> ChrOf(rs[i][2]),
         position |-> extractPrimaryPosition(Trim(rs[i][5]))]]

(***************************************************************************)
(* import-sample-genes.js: the fallback data of the annotation import.     *)
(***************************************************************************)
sampleGenes ==
  << [gene_id |-> "AT1G25320", chromosome |-> "Chr1", start_position |-> 8863550,
      end_position |-> 8866320, strand |-> "+"],
     [gene_id |-> "AT3G15500", chromosome |-> "Chr3", start_position |-> 5242700,
      end_position |-> 5246820, strand |-> "+"],
     [gene_id |-> "AT5G20320", chromosome |-> "Chr5", start_position |-> 6865400,
      end_position |-> 6868200, strand |-> "-"] >>

sampleFeatures ==
  << [gene_id |-> "AT1G25320", chromosome |-> "Chr1", type |-> "exon",
      start_position |-> 8863550, end_position |-> 8866320, strand |-> "+"],
     [gene_id |-> "AT1G25320", chromosome |-> "Chr1", type |-> "CDS",
      start_position |-> 8863750, end_position |-> 8866120, strand |-> "+"],
     [gene_id |-> "AT3G15500", chromosome |-> "Chr3", type |-> "exon",
      start_position |-> 5242700, end_position |-> 5246820, strand |-> "+"],
     [gene_id |-> "AT3G15500", chromosome |-> "Chr3", type |-> "CDS",
      start_position |-> 5242900, end_position |-> 5246620, strand |-> "+"],
     [gene_id |-> "AT5G20320", chromosome |-> "Chr5", type |-> "exon",
      start_position |-> 6865400, end_position |-> 6868200, strand |-> "-"],
     [gene_id |-> "AT5G20320", chromosome |-> "Chr5", type |-> "CDS",
      start_position |-> 6865600, end_position |-> 6868000, strand |-> "-"] >>

sampleTDNALines ==
  << [line_id |-> "SALK_019496", target_gene |-> "AT1G25320", hit_region |-> "Exon",
      homozygosity_status |-> "HMc", stock_center_status |-> "Sent",
      chromosome |-> "Chr1", position |-> 8864721],
     [line_id |-> "SALK_064305", target_gene |-> "AT1G25320", hit_region |-> "Exon",
      homozygosity_status |-> "HMc", stock_center_status |-> "Sent",
      chromosome |-> "Chr1", position |-> 8864989],
     [line_id |-> "SALK_022022", target_gene |-> "AT3G15500", hit_region |-> "Exon",
      homozygosity_status |-> "HMc", stock_center_status |-> "Sent",
      chromosome |-> "Chr3", position |-> 5243850],
     [line_id |-> "SALK_088566", target_gene |-> "AT5G20320", hit_region |-> "Exon",
      homozygosity_status |-> "HMc", stock_center_status |-> "Sent",
      chromosome |-> "Chr5", position |-> 6867200] >>

\* Gene.upsert / TDNALine.upsert: the row with the same primary key is
\* overwritten, a row with a new key is added
UpsertGene(table, row) ==
  IF \E i \in 1..Len(table) : table[i].gene_id = row.gene_id
  THEN [i \in 1..Len(table) |-> IF table[i].gene_id = row.gene_id THEN row ELSE table[i]]
  ELSE Append(table, row)

UpsertLine(table, row) ==
  IF \E i \in 1..Len(table) : table[i].line_id = row.line_id
  THEN [i \in 1..Len(table) |-> IF table[i].line_id = row.line_id THEN row ELSE table[i]]
  ELSE Append(table, row)

RECURSIVE UpsertGenes(_, _)
UpsertGenes(table, rows) ==
  IF rows = <<>> THEN table ELSE UpsertGenes(UpsertGene(table, Head(rows)), Tail(rows))

RECURSIVE UpsertLines(_, _)
UpsertLines(table, rows) ==
  IF rows = <<>> THEN table ELSE UpsertLines(UpsertLine(table, Head(rows)), Tail(rows))

\* GeneFeature.upsert / TDNAPosition.upsert carry no primary key: the
\* auto-increment key is new at every call, so every call adds a row
importSampleData(d) ==
  [genes |-> UpsertGenes(d.genes, sampleGenes),
   features |-> d.features \o
     [i \in 1..Len(sampleFeatures) |->
        [feature_id |-> Len(d.features) + i, gene_id |-> sampleFeatures[i].gene_id,
         chromosome |-> sampleFeatures[i].chromosome, type |-> sampleFeatures[i].type,
         start_position |-> sampleFeatures[i].start_position,
         end_position |-> sampleFeatures[i].end_position,
         strand |-> sampleFeatures[i].strand]],
   lines |-> UpsertLines(d.lines,
     [i \in 1..Len(sampleTDNALines) |->
        [line_id |-> sampleTDNALines[i].line_id, target_gene |-> sampleTDNALines[i].target_gene,
         hit_region |-> sampleTDNALines[i].hit_region,
         homozygosity_status |-> sampleTDNALines[i].homozygosity_status,
         stock_center_status |-> sampleTDNALines[i].stock_center_status]]),
   positions |-> d.positions \o
     [i \in 1..Len(sampleTDNALines) |->
        [position_id |-> Len(d.positions) + i, line_id |-> sampleTDNALines[i].line_id,
         chromosome |-> sampleTDNALines[i].chromosome,
         position |-> sampleTDNALines[i].position]]]

\* bulkCreate rejects a batch that holds a start or an end that is not an
\* integer; the genes are written before the features
GenesAccepted(rows) ==
  \A i \in 1..Len(ImportGenes(rows)) :
    ImportGenes(rows)[i].start_position # NaN /\ ImportGenes(rows)[i].end_position # NaN

FeaturesAccepted(rows) ==
  \A i \in 1..Len(ImportFeatures(rows)) :
    ImportFeatures(rows)[i].start_position # NaN /\ ImportFeatures(rows)[i].end_position # NaN

\* the tables after parseGFF and before its fallback
GffImported(d, rows) ==
  [d EXCEPT !.genes = IF GenesAccepted(rows) THEN ImportGenes(rows) ELSE <<>>,
            !.features = IF GenesAccepted(rows) /\ FeaturesAccepted(rows)
                         THEN ImportFeatures(rows) ELSE <<>>]

\* the fallback runs when the import threw or left no gene AT1G25320
NeedsSampleGenes(rows) ==
  \/ ~GenesAccepted(rows)
  \/ ~FeaturesAccepted(rows)
  \/ \A i \in 1..Len(ImportGenes(rows)) : ImportGenes(rows)[i].gene_id # "AT1G25320"

\* the tables after import-gff.js.  The fallback is started with exec()
\* and the script calls process.exit(0) without waiting for it: the child
\* either completes (sampleDone) or ends before it writes anything
ImportGffResult(d, rows, sampleDone) ==
  IF NeedsSampleGenes(rows) /\ sampleDone
  THEN importSampleData(GffImported(d, rows))
  ELSE GffImported(d, rows)

\* import-gff.js: sync({force: true}) recreates genes and gene_features,
\* the file is imported, then import-sample-genes.js runs as the fallback
ImportGff(sampleDone) ==
  /\ (NeedsSampleGenes(files.gff) /\ sampleDone)
       => Len(db.positions) + Len(sampleTDNALines) <= MaxPositions
  /\ db' = ImportGffResult(db, files.gff, sampleDone)
  /\ UNCHANGED <<files, data, resp, tdna_env, global_env, run, page>>

\* the tables after import-tdna.js
ImportTdnaResult(d, f) ==
  [d EXCEPT !.lines = ImportLines(f.confirmed),
            !.positions = ImportPositions(f.location, ImportLines(f.confirmed))]

\* import-tdna.js: sync({force: true}) recreates tdna_lines and tdna_positions
ImportTdna ==
  /\ db' = ImportTdnaResult(db, files)
  /\ UNCHANGED <<files, data, resp, tdna_env, global_env, run, page>>

(***************************************************************************)
(* web/server/routes: queries on the database tables.                      *)
(***************************************************************************)
\* Gene.findByPk(geneId): the sequence of the gene found, empty for null
findByPk(geneId) == SelectSeq(db.genes, LAMBDA g : g.gene_id = geneId)

\* include: [{ model: TDNAPosition, attributes: [...] }]
WithPositions(line) ==
  [line_id |-> line.line_id, target_gene |-> line.target_gene, hit_region |-> line.hit_region,
   homozygosity_status |-> line.homozygosity_status,
   stock_center_status |-> line.stock_center_status,
   TDNAPositions |->
     LET ps == SelectSeq(db.positions, LAMBDA q : q.line_id = line.line_id)
     IN [i \in 1..Len(ps) |-> [position_id |-> ps[i].position_id,
                               chromosome |-> ps[i].chromosome, position |-> ps[i].position]]]

\* TDNALine.findAll({ where: { target_gene: geneId }, include: ... })
findAllLines(geneId) ==
  LET ls == SelectSeq(db.lines, LAMBDA l : l.target_gene = geneId)
  IN [i \in 1..Len(ls) |-> WithPositions(ls[i])]

\* TDNALine.findAll({ where: LOWER(target_gene) = lower, include: ... })
findAllLinesLower(lower) ==
  LET ls == SelectSeq(db.lines, LAMBDA l : toLowerCase(l.target_gene) = lower)
  IN [i \in 1..Len(ls) |-> WithPositions(ls[i])]

\* GeneFeature.findAll({ where: { gene_id: geneId }, attributes: [...] })
findAllFeatures(geneId) ==
  LET fs == SelectSeq(db.features, LAMBDA f : f.gene_id = geneId)
  IN [i \in 1..Len(fs) |-> [id |-> fs[i].feature_id, type |-> fs[i].type,
                            start |-> fs[i].start_position, end |-> fs[i].end_position,
                            strand |-> fs[i].strand]]

HardLine(line, gene, pid, chr, pos) ==
  [line_id |-> line, target_gene |-> gene, hit_region |-> "Exon", homozygosity_status |-> "HMc",
   stock_center_status |-> "Sent",
   TDNAPositions |-> <<[position_id |-> pid, chromosome |-> chr, position |-> pos]>>]

hardcodedLines ==
  << HardLine("SALK_019496", "AT1G25320", 100001, "Chr1", 8864721),
     HardLine("SALK_064305", "AT1G25320", 100002, "Chr1", 8864989) >>

knownGenesWithoutInsertions ==
  {"AT1G25330", "AT1G25340", "AT1G25350", "AT1G25360",
   "AT3G15510", "AT3G15518", "AT5G20330", "AT2G01020"}

\* geneId.replace(/\D/g, '')
RECURSIVE DigitsOf(_)
DigitsOf(s) ==
  IF Len(s) = 0 THEN s
  ELSE (IF IsDigit(CharAt(s, 1)) THEN CharAt(s, 1) ELSE "") \o DigitsOf(SubSeq(s, 2, Len(s)))

\* idNum.length > 5 ? parseInt(idNum.substring(0, 6)) : 100000 + parseInt(idNum)
DemoStart(geneId) ==
  LET idNum == DigitsOf(geneId)
  IN IF Len(idNum) > 5 THEN parseInt(SubSeq(idNum, 1, 6))
     ELSE IF parseInt(idNum) = NaN THEN NaN ELSE 100000 + parseInt(idNum)

\* geneId.match(/AT(\d)G/i) ? `Chr${chrMatch[1]}` : 'Chr1'
DemoChromosome(geneId) ==
  LET u == toUpperCase(geneId)
      starts == {i \in 1..Len(u) : /\ OccursAt(u, "AT", i)
                                   /\ i + 3 <= Len(u)
                                   /\ IsDigit(CharAt(u, i + 2))
                                   /\ CharAt(u, i + 3) = "G"}
  IN IF starts = {} THEN "Chr1" ELSE "Chr" \o CharAt(u, Min(starts) + 2)

Plus(a, b) == IF a = NaN THEN NaN ELSE a + b

demoLine(geneId) ==
  [line_id |-> "DEMO_" \o geneId, target_gene |-> geneId, hit_region |-> "Exon",
   homozygosity_status |-> "HMc", stock_center_status |-> "Demo",
   TDNAPositions |-> <<[position_id |-> 999999, chromosome |-> DemoChromosome(geneId),
                        position |-> DemoStart(geneId)]>>]

(***************************************************************************)
(* web/server/routes/tdna.js: GET /gene/:geneId.  fail is the outcome of   *)
(* the database access: TRUE when a query throws.                          *)
(***************************************************************************)
TdnaResp(param, status, rows) ==
  [NoResp EXCEPT !.op = "tdna/gene", !.gene = param, !.status = status, !.rows = rows]

tdnaGene(param, fail) ==
  LET geneId == toUpperCase(param)
  IN IF fail
     THEN IF geneId = "AT1G25320" THEN TdnaResp(param, 200, hardcodedLines)
          ELSE TdnaResp(param, 500, <<>>)
     ELSE IF geneId = "AT1G25320"
     THEN IF Len(findAllLines("AT1G25320")) > 0 THEN TdnaResp(param, 200, findAllLines("AT1G25320"))
          ELSE IF Len(findAllLinesLower("at1g25320")) > 0
          THEN TdnaResp(param, 200, findAllLinesLower("at1g25320"))
          ELSE TdnaResp(param, 200, hardcodedLines)
     ELSE IF Len(findByPk(geneId)) = 0
     THEN IF geneId = "AT3G15500"
          THEN TdnaResp(param, 200, <<HardLine("SALK_022022", geneId, 100003, "Chr3", 5243850)>>)
          ELSE IF geneId = "AT5G20320"
          THEN TdnaResp(param, 200, <<HardLine("SALK_088566", geneId, 100004, "Chr5", 6867200)>>)
          ELSE IF geneId \in knownGenesWithoutInsertions THEN TdnaResp(param, 200, <<>>)
          ELSE TdnaResp(param, 200, <<demoLine(geneId)>>)
     ELSE IF Len(findAllLines(geneId)) = 0 /\ Len(findAllLinesLower(toLowerCase(geneId))) > 0
     THEN TdnaResp(param, 200, findAllLinesLower(toLowerCase(geneId)))
     ELSE TdnaResp(param, 200, findAllLines(geneId))

RouteTdnaGene(param, fail) ==
  /\ resp' = tdnaGene(param, fail)
  /\ UNCHANGED <<files, data, tdna_env, global_env, run, page, db>>

(***************************************************************************)
(* web/server/routes/visualize.js: GET /:geneId.  The description of the   *)
(* gene is free text and is left out of the bundle.                        *)
(***************************************************************************)
Feat(id, type, start, end, strand) ==
  [id |-> id, type |-> type, start |-> start, end |-> end, strand |-> strand]

Ins(line, chr, pos) ==
  [line_id |-> line, chromosome |-> chr, position |-> pos, hit_region |-> "Exon",
   homozygosity_status |-> "HMc"]

Bundle(id, chr, start, end, strand, features, insertions) ==
  [isNull |-> FALSE,
   gene |-> [id |-> id, chromosome |-> chr, start |-> start, end |-> end, strand |-> strand],
   features |-> features, tdnaInsertions |-> insertions]

hardcodedGenes == {"AT1G25320", "AT3G15500", "AT5G20320"}

hardcodedBundle(geneId) ==
  IF geneId = "AT1G25320"
  THEN Bundle("AT1G25320", "Chr1", 8863550, 8866320, "+",
              <<Feat(1001, "exon", 8863550, 8866320, "+"), Feat(1002, "CDS", 8863750, 8866120, "+")>>,
              <<Ins("SALK_019496", "Chr1", 8864721), Ins("SALK_064305", "Chr1", 8864989)>>)
  ELSE IF geneId = "AT3G15500"
  THEN Bundle("AT3G15500", "Chr3", 5242700, 5246820, "+",
              <<Feat(2001, "exon", 5242700, 5246820, "+"), Feat(2002, "CDS", 5242900, 5246620, "+")>>,
              <<Ins("SALK_022022", "Chr3", 5243850)>>)
  ELSE Bundle("AT5G20320", "Chr5", 6865400, 6868200, "-",
              <<Feat(3001, "exon", 6865400, 6868200, "-"), Feat(3002, "CDS", 6865600, 6868000, "-")>>,
              <<Ins("SALK_088566", "Chr5", 6867200)>>)

demoBundle(geneId, withInsertions) ==
  LET start == DemoStart(geneId)
      end == Plus(start, 3000)
  IN Bundle(geneId, DemoChromosome(geneId), start, end, "+",
            <<Feat(9001, "exon", start, end, "+"),
              Feat(9002, "CDS", Plus(start, 200), Plus(end, -200), "+")>>,
            IF withInsertions
            THEN <<Ins("DEMO_" \o geneId, DemoChromosome(geneId), Plus(start, 1500))>>
            ELSE <<>>)

\* lines.flatMap(line => line.TDNAPositions.map(pos => ({...})))
RECURSIVE flatInsertions(_)
flatInsertions(lines) ==
  IF Len(lines) = 0 THEN <<>>
  ELSE LET l == lines[1]
       IN [i \in 1..Len(l.TDNAPositions) |->
             [line_id |-> l.line_id, chromosome |-> l.TDNAPositions[i].chromosome,
              position |-> l.TDNAPositions[i].position, hit_region |-> l.hit_region,
              homozygosity_status |-> l.homozygosity_status]]
          \o flatInsertions(Tail(lines))

dbBundle(gene, features, lines) ==
  Bundle(gene.gene_id, gene.chromosome, gene.start_position, gene.end_position, gene.strand,
         features, flatInsertions(lines))

VisResp(op, param, status, bundle) ==
  [NoResp EXCEPT !.op = op, !.gene = param, !.status = status, !.bundle = bundle]

visualize(param, fail) ==
  LET geneId == IF IsAtGeneId(toUpperCase(param)) THEN toUpperCase(param) ELSE param
      upper == toUpperCase(param)
      lines == IF Len(findAllLines(geneId)) = 0 /\ Len(findAllLinesLower(toLowerCase(geneId))) > 0
               THEN findAllLinesLower(toLowerCase(geneId))
               ELSE findAllLines(geneId)
  IN IF geneId \in hardcodedGenes
     THEN IF /\ ~fail
             /\ Len(findByPk(geneId)) > 0
             /\ Len(findAllFeatures(geneId)) > 0
             /\ Len(findAllLines(geneId)) > 0
          THEN VisResp("visualize", param, 200,
                       dbBundle(findByPk(geneId)[1], findAllFeatures(geneId), findAllLines(geneId)))
          ELSE VisResp("visualize", param, 200, hardcodedBundle(geneId))
     ELSE IF fail
     THEN IF upper \in hardcodedGenes THEN VisResp("visualize", param, 200, hardcodedBundle(upper))
          ELSE IF IsAtGeneId(upper) /\ upper \in knownGenesWithoutInsertions
          THEN VisResp("visualize", param, 200, demoBundle(upper, FALSE))
          ELSE IF IsAtGeneId(upper) THEN VisResp("visualize", param, 200, demoBundle(upper, TRUE))
          ELSE VisResp("visualize", param, 500, NullBundle)
     ELSE IF Len(findByPk(geneId)) = 0
     THEN VisResp("visualize", param, 200,
                  demoBundle(geneId, geneId \notin knownGenesWithoutInsertions))
     ELSE VisResp("visualize", param, 200,
                  dbBundle(findByPk(geneId)[1], findAllFeatures(geneId), lines))

RouteVisualize(param, fail) ==
  /\ resp' = visualize(param, fail)
  /\ UNCHANGED <<files, data, tdna_env, global_env, run, page, db>>

\* the route without fallback data: 404 for an unknown gene
visualizeBasic(param, fail) ==
  IF fail THEN VisResp("visualizeBasic", param, 500, NullBundle)
  ELSE IF Len(findByPk(param)) = 0 THEN VisResp("visualizeBasic", param, 404, NullBundle)
  ELSE VisResp("visualizeBasic", param, 200,
               dbBundle(findByPk(param)[1], findAllFeatures(param), findAllLines(param)))

RouteVisualizeBasic(param, fail) ==
  /\ resp' = visualizeBasic(param, fail)
  /\ UNCHANGED <<files, data, tdna_env, global_env, run, page, db>>

ServerQueries == {"AT1G25320", "at1g25320", "AT1G20330", "AT5G20330"}

\* the files the import scripts read
ServerGffRows ==
  << GffRow("gene", "1", "4", "ID=AT1G25320"),
     GffRow("CDS", "5", "5", "ID=AT1G25320:CDS:2;Parent=AT1G25320"),
     GffRow("gene", "1", "9", "ID=AT1G20330"),
     GffRow("gene", "x", "4", "ID=AT1G25320") >>

\* annotation files: empty, one gene, a gene with its CDS, another gene,
\* both genes, and a gene row whose start is no number
ServerGffFiles ==
  { <<>>, <<ServerGffRows[1]>>, <<ServerGffRows[1], ServerGffRows[2]>>, <<ServerGffRows[3]>>,
    <<ServerGffRows[1], ServerGffRows[3]>>, <<ServerGffRows[4]>> }

\* a confirmed table where one line has eligible rows for two genes
TwoGeneConf ==
  << ConfRow("AT1G25320", "SALK_1", "Exon", "HMc", "Sent"),
     ConfRow("AT1G20330", "SALK_1", "Exon", "HMc", "Sent") >>

ServerFileSets ==
  { [gff |-> g, confirmed |-> c, location |-> BaseLoc] :
      g \in ServerGffFiles, c \in {BaseConf, TwoGeneConf} }

InitServer ==
  /\ files \in ServerFileSets
  /\ data = NullData
  /\ resp = NoResp
  /\ tdna_env = EmptyTdnaEnv
  /\ global_env = EmptyGlobalEnv
  /\ run = NoRun
  /\ page = NoPage
  /\ db = EmptyDb

NextServer ==
  \/ \E sampleDone \in BOOLEAN : ImportGff(sampleDone)
  \/ ImportTdna
  \/ \E g \in ServerQueries, fail \in BOOLEAN : RouteTdnaGene(g, fail)
  \/ \E g \in ServerQueries, fail \in BOOLEAN : RouteVisualize(g, fail)
  \/ \E g \in ServerQueries, fail \in BOOLEAN : RouteVisualizeBasic(g, fail)

SpecServer == InitServer /\ [][NextServer]_vars

(***************************************************************************)
(* C7: for a gene identifier that no row of the annotation refers to, the  *)
(* visualization bundle is refused with GeneNotFound (404, no bundle).     *)
(***************************************************************************)
AbsentFromAnnotation(gene) ==
  /\ \A i \in 1..Len(files.gff) : ~FeatureOfGene(Field(files.gff[i], 9), gene)
  /\ \A i \in 1..Len(db.genes) : toUpperCase(db.genes[i].gene_id) # toUpperCase(gene)

C7_GeneNotFound ==
  (resp.op = "visualize" /\ resp.status # 500 /\ AbsentFromAnnotation(resp.gene))
    => resp.status = 404 /\ resp.bundle.isNull

(***************************************************************************)
(* C9: every insertion line, position and gene feature of a response is a  *)
(* row of the loaded tables: nothing comes from hardcoded or generated     *)
(* demo data.                                                              *)
(***************************************************************************)
LoadedInsertion(line, chr, pos) ==
  /\ \E i \in 1..Len(db.lines) : db.lines[i].line_id = line
  /\ \E i \in 1..Len(db.positions) :
       /\ db.positions[i].line_id = line
       /\ db.positions[i].chromosome = chr
       /\ db.positions[i].position = pos

LoadedFeature(f) ==
  \E i \in 1..Len(db.features) :
    /\ db.features[i].type = f.type
    /\ db.features[i].start_position = f.start
    /\ db.features[i].end_position = f.end

C9_NoDemoData ==
  /\ resp.op = "tdna/gene" =>
       \A i \in 1..Len(resp.rows) :
         /\ \E k \in 1..Len(db.lines) : db.lines[k].line_id = resp.rows[i].line_id
         /\ \A j \in 1..Len(resp.rows[i].TDNAPositions) :
              LoadedInsertion(resp.rows[i].line_id, resp.rows[i].TDNAPositions[j].chromosome,
                              resp.rows[i].TDNAPositions[j].position)
  /\ (resp.op = "visualize" /\ ~resp.bundle.isNull) =>
       /\ \E k \in 1..Len(db.genes) : db.genes[k].gene_id = resp.bundle.gene.id
       /\ \A i \in 1..Len(resp.bundle.features) : LoadedFeature(resp.bundle.features[i])
       /\ \A i \in 1..Len(resp.bundle.tdnaInsertions) :
            LoadedInsertion(resp.bundle.tdnaInsertions[i].line_id,
                            resp.bundle.tdnaInsertions[i].chromosome,
                            resp.bundle.tdnaInsertions[i].position)

(***************************************************************************)
(* C11: the details returned for a gene are in ascending order of          *)
(* position, and details of equal position are in ascending order of       *)
(* their line identifier, whatever the order of the rows of the tables.    *)
(***************************************************************************)
\* the characters of the identifiers in their code-unit order
CodeOrder == "-.0123456789:;=ABCDEFGHIJKLMNOPQRSTUVWXYZ_abcdefghijklmnopqrstuvwxyz"

CodeOf(c) == IF Includes(CodeOrder, c) THEN IndexOf(CodeOrder, c) ELSE 0

\* a <= b in the order of strings
RECURSIVE StrLeq(_, _)
StrLeq(a, b) ==
  IF Len(a) = 0 THEN TRUE
  ELSE IF Len(b) = 0 THEN FALSE
  ELSE IF CharAt(a, 1) = CharAt(b, 1) THEN StrLeq(SubSeq(a, 2, Len(a)), SubSeq(b, 2, Len(b)))
  ELSE CodeOf(CharAt(a, 1)) < CodeOf(CharAt(b, 1))

C11_OrderedByPosition ==
  DetailsAnswered =>
    \A i, j \in 1..Len(resp.details) :
      i < j => \/ resp.details[i].position < resp.details[j].position
               \/ /\ resp.details[i].position = resp.details[j].position
                  /\ StrLeq(resp.details[i].lineId, resp.details[j].lineId)

RecordedPositions(line) ==
  {extractPrimaryPosition(files.location[i][5]) :
     i \in {k \in 1..Len(files.location) :
              Len(files.location[k]) >= 5 /\ Identifies(files.location[k][1], line)}}

NoneQualifies(gene) ==
  \A l \in EligibleLines(data, toUpperCase(gene)) :
    \A p \in RecordedPositions(l) : ~InSomeCds(p, CdsOfGene(data, gene))

C14_EmptyWithoutError ==
  (resp.op = "getTDNAlines" /\ ~data.isNull /\ NoneQualifies(resp.gene))
    => (~resp.threw /\ resp.lines = <<>>)

(***************************************************************************)
(* C15: a request whose gene parameter is missing, empty or not a string   *)
(* is refused as invalid input (400); any other identifier is looked up in *)
(* upper case.                                                             *)
(***************************************************************************)
C15_InvalidInput ==
  resp.op = "handler" =>
    /\ resp.gene \in {Undefined, "", ArrayParam} => resp.status = 400
    /\ (resp.gene \notin {Undefined, "", ArrayParam} /\ resp.status = 200) =>
         resp.lines = getTDNAlines(data, toUpperCase(resp.gene))

(***************************************************************************)
(* C16: the position of a loaded location row is the first number of its   *)
(* position field: the digits before the first dash of the part before the *)
(* first " vs "; "8864721-8864722 vs 0-0" gives 8864721.                   *)
(***************************************************************************)
\* the field starts with a number that ends at a dash, at " vs " or at the end
StartsWithNumber(field) ==
  LET n == DigitPrefixLen(field)
  IN /\ n > 0
     /\ \/ n = Len(field)
        \/ CharAt(field, n + 1) = "-"
        \/ OccursAt(field, " vs ", n + 1)

LeadingNumber(field) == DigitsValue(SubSeq(field, 1, DigitPrefixLen(field)))

ParsableLocation(r) == Len(r) >= 5 /\ extractPrimaryPosition(r[5]) # NaN

C17_UnparsableDropped ==
  ~data.isNull =>
    /\ \A i \in 1..Len(data.location) : data.location[i].pos # NaN
    /\ Len(data.location) =
         Cardinality({i \in 1..Len(files.location) : ParsableLocation(files.location[i])})

(***************************************************************************)
(* C18: loading the annotation table skips the rows with fewer than nine   *)
(* fields or with a start or end that is not an integer, and loads all the *)
(* others: no rejected row is in the loaded table.                         *)
(***************************************************************************)
WellFormedGff(r) == Len(r) >= 9 /\ Number(r[4]) # NaN /\ Number(r[5]) # NaN

C18_MalformedSkipped ==
  ~data.isNull =>
    /\ \A i \in 1..Len(data.gff) :
         /\ data.gff[i].info # Undefined
         /\ data.gff[i].start # NaN
         /\ data.gff[i].stop # NaN
    /\ Len(data.gff) = Cardinality({i \in 1..Len(files.gff) : WellFormedGff(files.gff[i])})

(***************************************************************************)
(* C19: a location row is resolved to line L exactly when L is a full      *)
(* leading token sequence of its label: the label L followed by a sub-line *)
(* suffix is found, a label that merely contains L is not.                 *)
(***************************************************************************)
C19_LeadingTokenMatch ==
  DetailsAnswered =>
    LET lines == EligibleLines(data, resp.gene)
        labels == {resp.details[i].lineId : i \in 1..Len(resp.details)}
    IN /\ \A k \in 1..Len(data.location) :
            ((\E l \in lines : Identifies(data.location[k].V1, l))
               /\ InCds(data.location[k].pos, CdsPos(data, resp.gene))
               /\ \A j \in 1..(k - 1) : data.location[j].V1 # data.location[k].V1)
              => data.location[k].V1 \in labels
       /\ \A k \in 1..Len(data.location) :
            (\A l \in lines : ~Identifies(data.location[k].V1, l))
              => data.location[k].V1 \notin labels

(***************************************************************************)
(* C20: every returned detail carries the hit region, homozygosity status  *)
(* and stock-center status of the eligible confirmed row of its line for   *)
(* the queried gene.                                                       *)
(***************************************************************************)
C20_DetailMetadata ==
  DetailsAnswered =>
    LET gc == GeneConfirmed(data, resp.gene)
    IN \A i \in 1..Len(resp.details) :
         (\E k \in 1..Len(gc) : Identifies(resp.details[i].lineId, gc[k].line))
           => \E k \in 1..Len(gc) :
                /\ Identifies(resp.details[i].lineId, gc[k].line)
                /\ resp.details[i].hitRegion = gc[k].HitRegion
                /\ resp.details[i].hm = gc[k].HM
                /\ resp.details[i].abrc = gc[k].ABRC

(***************************************************************************)
(* C21: the eligible lines of a gene are all eligible confirmed rows whose *)
(* uppercased target gene is that gene: after the T-DNA import every       *)
(* eligible row of the confirmed file is a line of its gene, also when the *)
(* same line id has eligible rows for two genes.                           *)
(***************************************************************************)
EligibleRow(r) ==
  /\ Len(r) >= 5
  /\ Trim(r[3]) = "Exon"
  /\ Trim(r[4]) \in {"HMc", "HMn"}
  /\ Trim(r[5]) # "NotSent"

C21_EligibleForEveryGene ==
  [][ImportTdna =>
       \A i \in 1..Len(files.confirmed) :
         EligibleRow(files.confirmed[i]) =>
           \E k \in 1..Len(db'.lines) :
             /\ db'.lines[k].line_id = Trim(files.confirmed[i][2])
             /\ db'.lines[k].target_gene = toUpperCase(Trim(files.confirmed[i][1]))]_vars

(***************************************************************************)
(* C22: CDS membership is a closed-interval test.  A location of an        *)
(* eligible line whose position is exactly the start or exactly the end    *)
(* of a CDS feature of the gene is returned; a position one below the      *)
(* start or one above the end that no CDS feature of the gene covers is    *)
(* not returned.  (The first location row of a label is the one the        *)
(* engine keeps.)                                                          *)
(***************************************************************************)
OnBoundary(pos, cds) ==
  \E c \in cds : c.start # NaN /\ c.stop # NaN /\ c.start <= c.stop /\ pos \in {c.start, c.stop}

JustOutside(pos, cds) ==
  /\ pos # NaN
  /\ \E c \in cds : c.start # NaN /\ c.stop # NaN /\ c.start <= c.stop
                     /\ pos \in {c.start - 1, c.stop + 1}
  /\ ~InSomeCds(pos, cds)

FirstOfLabel(d, i) == \A j \in 1..(i - 1) : d.location[j].V1 # d.location[i].V1

as_numeric(s) ==
  IF s # Undefined /\ Len(s) > 0 /\ DigitPrefixLen(s) = Len(s) THEN DigitsValue(s) ELSE NaN

\* fread of the annotation with the column names of loadTDNAdata
RGff(rows) ==
  [i \in 1..Len(rows) |->
     [chr |-> rows[i][1], type |-> rows[i][3], start |-> as_numeric(rows[i][4]),
      stop |-> as_numeric(rows[i][5]), strand |-> rows[i][7], info |-> rows[i][9]]]

\* confirmed[`Hit region` == "Exon" & HM %in% c("HMc", "HMn") & ABRC != "NotSent"]
\* with `Target Gene` in upper case
RConfirmedExonHomSent(rows) ==
  LET kept == SelectSeq(rows, LAMBDA r : r[3] = "Exon" /\ r[4] \in {"HMc", "HMn"} /\ r[5] # "NotSent")
  IN [i \in 1..Len(kept) |->
        [TargetGene |-> toUpperCase(kept[i][1]), line |-> kept[i][2],
         HitRegion |-> kept[i][3], HM |-> kept[i][4], ABRC |-> kept[i][5]]]

\* as.numeric(... strsplit(strsplit(V5, " vs ")[1], "-")[1])
RLocation(rows) ==
  [i \in 1..Len(rows) |->
     [V1 |-> rows[i][1], chr |-> rows[i][4],
      pos |-> as_numeric(SplitFirst(SplitFirst(rows[i][5], " vs "), "-"))]]

RequiredPkg == {"gff", "confirmed_exon_hom_sent", "location"}

\* rPackage loadTDNAdata(): the three assign(..., envir = .tdna_env)
RPkgLoaded(f) ==
  [names |-> RequiredPkg, gff |-> RGff(f.gff),
   confirmed_exon_hom_sent |-> RConfirmedExonHomSent(f.confirmed),
   location |-> RLocation(f.location)]

RPkgLoadTDNAdata ==
  /\ tdna_env' = RPkgLoaded(files)
  /\ resp' = [NoResp EXCEPT !.op = "R.loadTDNAdata"]
  /\ UNCHANGED <<files, data, global_env, run, page, db>>

\* unique(x): the first occurrence of every element
RUnique(x) == AtIndices(x, {i \in 1..Len(x) : \A j \in 1..(i - 1) : x[j] # x[i]})

\* x[4]:x[5], ascending or descending
RColon(a, b) == IF a <= b THEN a..b ELSE b..a

NotLoadedMessage == "TDNA data not loaded. Please run loadTDNAdata() first."

\* the message of  "":""  when apply() probes a table without rows
ColonNaMessage == "NA/NaN argument"

\* rPackage getTDNAlines(gene) for a single string; grep() is a substring
\* search for the identifiers asked, which hold letters, digits and _
RPkgGetTDNAlines(env, gene) ==
  IF ~(RequiredPkg \subseteq env.names)
  THEN [NoResp EXCEPT !.op = "R.getTDNAlines", !.gene = gene, !.threw = TRUE,
                      !.error = NotLoadedMessage]
  ELSE
    LET geneconfirmed == SelectSeq(env.confirmed_exon_hom_sent, LAMBDA c : c.TargetGene = gene)
        lines == RUnique([i \in 1..Len(geneconfirmed) |-> geneconfirmed[i].line])
        genegff == SelectSeq(env.gff, LAMBDA g : Includes(g.info, "ID=" \o gene)
                                                  /\ g.type \in RegionTypes)
        cds == SelectSeq(genegff, LAMBDA g : g.type = "CDS")
        cdspos == UNION {RColon(cds[i].start, cds[i].stop) : i \in 1..Len(cds)}
        matches == SelectSeq(env.location, LAMBDA loc : LabelMatches(loc.V1, lines))
        locations == RUnique([i \in 1..Len(matches) |-> [V1 |-> matches[i].V1, pos |-> matches[i].pos]])
        kept == SelectSeq(locations, LAMBDA m : m.pos # NaN /\ m.pos \in cdspos)
    IN IF Len(lines) = 0
       THEN [NoResp EXCEPT !.op = "R.getTDNAlines", !.gene = gene]
       ELSE IF Len(cds) = 0 \/ \E i \in 1..Len(cds) : cds[i].start = NaN \/ cds[i].stop = NaN
       THEN [NoResp EXCEPT !.op = "R.getTDNAlines", !.gene = gene, !.threw = TRUE,
                           !.error = ColonNaMessage]
       ELSE [NoResp EXCEPT !.op = "R.getTDNAlines", !.gene = gene,
                           !.lines = [i \in 1..Len(kept) |-> kept[i].V1]]

CallRPkgGetTDNAlines(g) ==
  /\ resp' = RPkgGetTDNAlines(tdna_env, g)
  /\ UNCHANGED <<files, data, tdna_env, global_env, run, page, db>>

(***************************************************************************)
(* R/loadTDNAdata.R and R/getTDNAlines.R: the tables live in .GlobalEnv.   *)
(* loadTDNAdata(force, use_base_r) assigns gff, confirmed,                 *)
(* confirmed__exon_hom_sent and location with assign(); its               *)
(* colnames(gff) <- ... and location$pos <- ... change copies local to    *)
(* the function, so the global gff keeps the columns V1..V9 when read by  *)
(* fread and the global location has no column pos.  getTDNAlines reads   *)
(* the annotation by either set of column names in the same way.          *)
(***************************************************************************)
RequiredGlobal == {"gff", "confirmed", "confirmed__exon_hom_sent", "location"}

\* the objects whose access is tested
TestedGlobal == <<"gff", "confirmed", "location">>

\* nrow(x) < 10 makes a table invalid
MinRows == 10

\* the location table as assigned by loadTDNAdata: V1..V5 only
RLocationRaw(rows) ==
  [i \in 1..Len(rows) |-> [V1 |-> rows[i][1], chr |-> rows[i][4], V5 |-> rows[i][5]]]

\* the error handler of loadTDNAdata: a corrupt object is met, every table
\* is removed from .GlobalEnv
RemoveCorrupt(env) ==
  IF \E i \in 1..3 : TestedGlobal[i] \in env.names /\ TestedGlobal[i] \in env.corrupt
  THEN [env EXCEPT !.names = @ \ RequiredGlobal, !.corrupt = @ \ RequiredGlobal]
  ELSE env

\* the objects after a complete load with data.table
GlobalLoaded(env, f) ==
  [names |-> env.names \cup RequiredGlobal, corrupt |-> env.corrupt \ RequiredGlobal,
   gff |-> RGff(f.gff), confirmed |-> f.confirmed,
   confirmed__exon_hom_sent |-> RConfirmedExonHomSent(f.confirmed),
   location |-> RLocationRaw(f.location)]

\* use_base_r = TRUE: read.delim names the annotation columns but turns the
\* header `Hit region` into Hit.region, so confirmed$`Hit region` is NULL;
\* the filter then has a logical(0) index, which data.table rejects
\* (stopped = TRUE) and a data.frame answers with no row
GlobalLoadedBaseR(env, f, stopped) ==
  IF stopped
  THEN [env EXCEPT !.names = @ \cup {"gff", "confirmed"},
                   !.corrupt = @ \ {"gff", "confirmed"},
                   !.gff = RGff(f.gff), !.confirmed = f.confirmed]
  ELSE [names |-> env.names \cup RequiredGlobal, corrupt |-> env.corrupt \ RequiredGlobal,
        gff |-> RGff(f.gff), confirmed |-> f.confirmed,
        confirmed__exon_hom_sent |-> <<>>, location |-> RLocationRaw(f.location)]

\* loadTDNAdata(force, use_base_r): the environment it leaves
loadTDNAdata(env, f, force, use_base_r, stopped) ==
  LET e == RemoveCorrupt(env)
  IN IF ~force /\ {"gff", "confirmed", "location"} \subseteq e.names
     THEN e
     ELSE IF use_base_r THEN GlobalLoadedBaseR(e, f, stopped) ELSE GlobalLoaded(e, f)

\* loadTDNAdata stops with "Failed to load T-DNA insertions"
loadStops(env, force, use_base_r, stopped) ==
  /\ use_base_r /\ stopped
  /\ force \/ ~({"gff", "confirmed", "location"} \subseteq RemoveCorrupt(env).names)

RECURSIVE ValidUpTo(_, _)
\* the tryCatch of verify_tdna_data that computes valid: the tables are
\* looked at in the order gff, confirmed, location; an error ends the block
\* and its handler assigns a variable of its own
ValidUpTo(env, i) ==
  IF i > 3 THEN TRUE
  ELSE IF TestedGlobal[i] \in env.corrupt THEN TRUE
  ELSE IF Len(env[TestedGlobal[i]]) < MinRows THEN FALSE
  ELSE ValidUpTo(env, i + 1)

\* verify_tdna_data(): the environment it leaves.  corrupt <- TRUE in the
\* error handler assigns a variable of the handler, so the test of
\* corruption never triggers a reload
verify_tdna_data(env, f, stopped) ==
  IF ~(RequiredGlobal \subseteq env.names)
  THEN loadTDNAdata(env, f, TRUE, FALSE, stopped)
  ELSE IF ~ValidUpTo(env, 1)
  THEN loadTDNAdata(env, f, TRUE, TRUE, stopped)
  ELSE env

verifyStops(env, stopped) ==
  /\ RequiredGlobal \subseteq env.names
  /\ ~ValidUpTo(env, 1)
  /\ loadStops(env, TRUE, TRUE, stopped)

\* a word character of the regular expression \b
IsWordChar(c) == IsAlnum(c) \/ c = "_"

\* grep(paste0("\\b(", line, ")\\b"), label)
RWordMatch(label, line) ==
  \E i \in 1..Len(label) :
    /\ OccursAt(label, line, i)
    /\ Len(line) > 0
    /\ i > 1 => ~IsWordChar(CharAt(label, i - 1))
    /\ i + Len(line) <= Len(label) => ~IsWordChar(CharAt(label, i + Len(line)))

\* grep(paste0("ID=", gene), info, ignore.case = TRUE)
RInfoMatches(info, gene) == Includes(toUpperCase(info), "ID=" \o toUpperCase(gene))

MissingPosMessage == "column(s) not found: pos"
CorruptMessage == "lazy-load database is corrupt"

\* getTDNAlines(gene, region) after verify_tdna_data(), for a single string
RGetTDNAlines(env, g, region) ==
  LET gene == toUpperCase(g)
      ok == [NoResp EXCEPT !.op = "R.getTDNAlines(region)", !.gene = g, !.region = region]
      geneconfirmed == SelectSeq(env.confirmed__exon_hom_sent, LAMBDA c : c.TargetGene = gene)
      lines == RUnique([i \in 1..Len(geneconfirmed) |-> geneconfirmed[i].line])
      genegff == SelectSeq(env.gff, LAMBDA r : RInfoMatches(r.info, gene) /\ r.type \in region)
      cds == SelectSeq(genegff, LAMBDA r : r.type = "CDS")
      matches == SelectSeq(env.location,
                           LAMBDA loc : \E i \in 1..Len(lines) : RWordMatch(loc.V1, lines[i]))
  IN IF "confirmed__exon_hom_sent" \notin env.names
     THEN [ok EXCEPT !.threw = TRUE, !.error = "object 'confirmed__exon_hom_sent' not found"]
     ELSE IF Len(lines) = 0 THEN ok
     ELSE IF "gff" \in env.corrupt THEN [ok EXCEPT !.threw = TRUE, !.error = CorruptMessage]
     ELSE IF Len(genegff) = 0 THEN ok
     ELSE IF Len(cds) = 0 THEN ok
     ELSE IF "location" \notin env.names
     THEN [ok EXCEPT !.threw = TRUE, !.error = "object 'location' not found"]
     ELSE IF "location" \in env.corrupt THEN [ok EXCEPT !.threw = TRUE, !.error = CorruptMessage]
     ELSE IF Len(matches) = 0 THEN ok
     ELSE [ok EXCEPT !.threw = TRUE, !.error = MissingPosMessage]

FailedLoadMessage == "Failed to load T-DNA insertions"

CallLoadTDNAdata(force, use_base_r, stopped) ==
  /\ global_env' = loadTDNAdata(global_env, files, force, use_base_r, stopped)
  /\ resp' = IF loadStops(global_env, force, use_base_r, stopped)
             THEN [NoResp EXCEPT !.op = "R.loadTDNAdata(force)", !.threw = TRUE,
                                 !.error = FailedLoadMessage]
             ELSE [NoResp EXCEPT !.op = "R.loadTDNAdata(force)"]
  /\ UNCHANGED <<files, data, tdna_env, run, page, db>>

CallVerifyTdnaData(stopped) ==
  /\ global_env' = verify_tdna_data(global_env, files, stopped)
  /\ resp' = IF verifyStops(global_env, stopped)
             THEN [NoResp EXCEPT !.op = "R.verify_tdna_data", !.threw = TRUE,
                                 !.error = FailedLoadMessage]
             ELSE [NoResp EXCEPT !.op = "R.verify_tdna_data"]
  /\ UNCHANGED <<files, data, tdna_env, run, page, db>>

\* getTDNAlines(gene, region): verify_tdna_data() first, then the query
CallRGetTDNAlines(g, region, stopped) ==
  /\ global_env' = verify_tdna_data(global_env, files, stopped)
  /\ resp' = IF verifyStops(global_env, stopped)
             THEN [NoResp EXCEPT !.op = "R.getTDNAlines(region)", !.gene = g,
                                 !.region = region, !.threw = TRUE,
                                 !.error = FailedLoadMessage]
             ELSE RGetTDNAlines(verify_tdna_data(global_env, files, stopped), g, region)
  /\ UNCHANGED <<files, data, tdna_env, run, page, db>>

\* the session: an object of .GlobalEnv is removed by the user
UserRm(n) ==
  /\ n \in global_env.names
  /\ global_env' = [global_env EXCEPT !.names = @ \ {n}, !.corrupt = @ \ {n}]
  /\ UNCHANGED <<files, data, resp, tdna_env, run, page, db>>

\* the session: the lazy-load database behind an object becomes corrupt
Damage(n) ==
  /\ n \in global_env.names
  /\ n \notin global_env.corrupt
  /\ global_env' = [global_env EXCEPT !.corrupt = @ \cup {n}]
  /\ UNCHANGED <<files, data, resp, tdna_env, run, page, db>>

(***************************************************************************)
(* The bundled files of the R package and the calls made.                  *)
(***************************************************************************)
\* rows of other genes and lines that bring a table to MinRows rows
PadGff == [i \in 1..MinRows |-> GffRow("gene", "1", "9", "ID=AT4G00000")]
PadConf == [i \in 1..MinRows |-> ConfRow("AT4G00000", "SALK_4", "Exon", "HMc", "Sent")]
PadLoc == [i \in 1..MinRows |-> LocRow("SALK_4", "9-9 vs 0-0")]

\* a gene with a 5' UTR at 1 and a CDS at 2..3
RGffRows ==
  << GffRow("gene", "1", "4", "ID=AT1G25320"),
     GffRow("five_prime_UTR", "1", "1", "ID=AT1G25320:five_prime_UTR:1;Parent=AT1G25320"),
     GffRow("CDS", "2", "3", "ID=AT1G25320:CDS:1;Parent=AT1G25320") >>

\* the bundled tables, with a line in the UTR or a line in the CDS, and
\* tables of fewer than MinRows rows
RFileSets ==
  { [gff |-> RGffRows \o PadGff, confirmed |-> BaseConf \o PadConf,
     location |-> <<LocRow("SALK_1", "1-2 vs 0-0")>> \o PadLoc],
    [gff |-> RGffRows \o PadGff, confirmed |-> BaseConf \o PadConf,
     location |-> <<LocRow("SALK_1.1.x", "2-3 vs 0-0")>> \o PadLoc],
    [gff |-> BaseGff, confirmed |-> BaseConf, location |-> BaseLoc] }

Regions == { RegionTypes, {"five_prime_UTR"}, {"CDS"} }

RQueries == {"AT1G25320", "AT1G20330"}

InitR ==
  /\ files \in RFileSets
  /\ data = NullData
  /\ resp = NoResp
  /\ tdna_env = EmptyTdnaEnv
  /\ global_env = EmptyGlobalEnv
  /\ run = NoRun
  /\ page = NoPage
  /\ db = EmptyDb

NextR ==
  \/ \E force \in BOOLEAN, use_base_r \in BOOLEAN, stopped \in BOOLEAN :
       CallLoadTDNAdata(force, use_base_r, stopped)
  \/ \E stopped \in BOOLEAN : CallVerifyTdnaData(stopped)
  \/ \E g \in RQueries, region \in Regions, stopped \in BOOLEAN :
       CallRGetTDNAlines(g, region, stopped)
  \/ \E n \in {"gff", "confirmed__exon_hom_sent"} : UserRm(n)
  \/ \E n \in {"gff", "location"} : Damage(n)

SpecR == InitR /\ [][NextR]_vars

\* the tables of the package rPackage: no table is empty, every row is complete
CompleteFiles(f) ==
  /\ Len(f.gff) > 0 /\ Len(f.confirmed) > 0 /\ Len(f.location) > 0
  /\ \A i \in 1..Len(f.gff) : Len(f.gff[i]) >= 9
  /\ \A i \in 1..Len(f.confirmed) : Len(f.confirmed[i]) >= 5
  /\ \A i \in 1..Len(f.location) : Len(f.location[i]) >= 5

InitRPkg ==
  /\ files \in {f \in FileSets : CompleteFiles(f)}
  /\ data = NullData
  /\ resp = NoResp
  /\ tdna_env = EmptyTdnaEnv
  /\ global_env = EmptyGlobalEnv
  /\ run = NoRun
  /\ page = NoPage
  /\ db = EmptyDb

NextRPkg ==
  \/ RPkgLoadTDNAdata
  \/ \E g \in Queries : CallRPkgGetTDNAlines(g)

SpecRPkg == InitRPkg /\ [][NextRPkg]_vars

(***************************************************************************)
(* C23: the load-before-query protocol of the R package.  getTDNAlines     *)
(* called while the tables are not loaded fails with the error             *)
(* 'TDNA data not loaded'; after loadTDNAdata() the names gff,             *)
(* confirmed_exon_hom_sent and location are in the package environment,    *)
(* and every later getTDNAlines call with a single string returns a        *)
(* character vector, possibly empty.                                       *)
(***************************************************************************)
PkgTablesPresent == {"gff", "confirmed_exon_hom_sent", "location"} \subseteq tdna_env.names

EligibleFor(r, gene) ==
  /\ r[3] = "Exon" /\ r[4] \in {"HMc", "HMn"} /\ r[5] # "NotSent"
  /\ toUpperCase(r[1]) = toUpperCase(gene)

\* the location row l carries a line of gene
LineOfGene(l, gene) ==
  \E i \in 1..Len(files.confirmed) :
    EligibleFor(files.confirmed[i], gene) /\ Identifies(l[1], files.confirmed[i][2])

\* the location row l lies inside a feature of gene whose type is in region
InsideListed(l, gene, region) ==
  /\ StartsWithNumber(l[5])
  /\ \E i \in 1..Len(files.gff) :
       /\ files.gff[i][3] \in region
       /\ FeatureOfGene(files.gff[i][9], gene)
       /\ as_numeric(files.gff[i][4]) <= LeadingNumber(l[5])
       /\ LeadingNumber(l[5]) <= as_numeric(files.gff[i][5])

C24_RegionArgument ==
  resp.op = "R.getTDNAlines(region)" =>
    /\ \A i \in 1..Len(files.location) :
         (LineOfGene(files.location[i], resp.gene)
            /\ InsideListed(files.location[i], resp.gene, resp.region))
         => (~resp.threw /\ \E k \in 1..Len(resp.lines) : resp.lines[k] = files.location[i][1])
    /\ \A k \in 1..Len(resp.lines) :
         \E i \in 1..Len(files.location) :
           /\ files.location[i][1] = resp.lines[k]
           /\ InsideListed(files.location[i], resp.gene, resp.region)

(***************************************************************************)
(* C25: verify_tdna_data() reloads when necessary.  If one of gff,         *)
(* confirmed, confirmed__exon_hom_sent and location is missing, or the     *)
(* access to one of the tables raises an error, the tables are loaded      *)
(* anew before it returns: every object is there and none is corrupt.      *)
(***************************************************************************)
NeedsReload ==
  \/ ~({"gff", "confirmed", "confirmed__exon_hom_sent", "location"} \subseteq global_env.names)
  \/ global_env.corrupt \cap {"gff", "confirmed", "location"} # {}

C25_VerifyReloads ==
  [][((\E stopped \in BOOLEAN : CallVerifyTdnaData(stopped)) /\ NeedsReload /\ ~resp'.threw)
       => /\ {"gff", "confirmed", "confirmed__exon_hom_sent", "location"} \subseteq global_env'.names
          /\ global_env'.corrupt = {}]_vars

(***************************************************************************)
(* data_import: runAllImports runs import-gff.js and then import-tdna.js   *)
(* with runScript, which answers true when the script exits with code 0.   *)
(* import-gff.js catches a missing file and every error of the parsing     *)
(* inside parseGFF and then calls process.exit(0); it exits with another   *)
(* code only when the script itself cannot run (crash).                    *)
(***************************************************************************)
\* how the annotation import went
GffOutcome(present, crash, rows) ==
  IF crash THEN "crash"
  ELSE IF ~present THEN "missing"
  ELSE IF ~GenesAccepted(rows) \/ ~FeaturesAccepted(rows) THEN "error"
  ELSE "ok"

\* the tables after import-gff.js for each outcome; without the file the
\* tables are not recreated and only the fallback runs
GffScriptResult(d, rows, outcome, sampleDone) ==
  IF outcome = "crash" THEN d
  ELSE IF outcome = "missing" THEN (IF sampleDone THEN importSampleData(d) ELSE d)
  ELSE ImportGffResult(d, rows, sampleDone)

\* runScript: true unless the exit code is not 0
runScript(outcome) == outcome # "crash"

StartAllImports ==
  /\ run = NoRun
  /\ run' = [script |-> "runAllImports", pc |-> "gff", gff |-> "running",
             tdna |-> "not started"]
  /\ UNCHANGED <<files, data, resp, tdna_env, global_env, page, db>>

\* import-gff.js ends and runAllImports goes on: it returns when gffResult
\* is false and starts import-tdna.js otherwise
GffScriptExits(present, crash, sampleDone) ==
  /\ run.script = "runAllImports" /\ run.pc = "gff"
  /\ LET outcome == GffOutcome(present, crash, files.gff)
     IN /\ db' = GffScriptResult(db, files.gff, outcome, sampleDone)
        /\ run' = IF runScript(outcome)
                  THEN [run EXCEPT !.pc = "tdna", !.gff = outcome, !.tdna = "running"]
                  ELSE [run EXCEPT !.pc = "done", !.gff = outcome]
  /\ UNCHANGED <<files, data, resp, tdna_env, global_env, page>>

\* import-tdna.js ends and runAllImports returns
TdnaScriptExits(crash) ==
  /\ run.script = "runAllImports" /\ run.pc = "tdna"
  /\ db' = IF crash THEN db ELSE ImportTdnaResult(db, files)
  /\ run' = [run EXCEPT !.pc = "done", !.tdna = IF crash THEN "crash" ELSE "ok"]
  /\ UNCHANGED <<files, data, resp, tdna_env, global_env, page>>

NextImports ==
  \/ StartAllImports
  \/ \E present \in BOOLEAN, crash \in BOOLEAN, sampleDone \in BOOLEAN :
       GffScriptExits(present, crash, sampleDone)
  \/ \E crash \in BOOLEAN : TdnaScriptExits(crash)

SpecImports == InitServer /\ [][NextImports]_vars

(***************************************************************************)
(* C26: runAllImports starts the T-DNA import only after the GFF import    *)
(* has finished, and when the GFF import failed (file missing or parsing   *)
(* raised an error) the T-DNA import is never started.                     *)
(***************************************************************************)
C26_ImportOrder ==
  run.script = "runAllImports" =>
    /\ run.tdna # "not started" => run.gff # "running"
    /\ run.gff \in {"missing", "error", "crash"} => run.tdna = "not started"

\* ---------------------------------------------------------------------
\* check-database-and-start.js: the start script
\* ---------------------------------------------------------------------

\* what check-database.js prints: the gene count, and the line
\* 'AT1G25320 exists: ...' only when the gene table is not empty; a database
\* error is caught inside the script, which then prints neither (geneCount
\* -1 here) and still exits with code 0
CheckDatabaseStdout(d, dbError) ==
  IF dbError THEN [geneCount |-> -1, exists |-> "none"]
  ELSE [geneCount |-> Len(d.genes),
        exists |-> IF Len(d.genes) = 0 THEN "none"
                   ELSE IF \E i \in 1..Len(d.genes) : d.genes[i].gene_id = "AT1G25320"
                        THEN "true" ELSE "false"]

\* checkDatabase: stdout.includes('Gene count: 0') and
\* !stdout.includes('AT1G25320 exists: true')
checkDatabase(stdout) ==
  [isEmpty |-> stdout.geneCount = 0, at1g25320Missing |-> stdout.exists # "true"]

\* main after the awaited check: the sample import is run (and awaited) when
\* the check asks for it, the server is spawned otherwise
AfterCheck_NoImport(isEmpty, at1g25320Missing) == "server"

AfterCheck(isEmpty, at1g25320Missing) ==
  IF isEmpty \/ at1g25320Missing THEN "import" ELSE "server"

\* import-sample-genes.js as a child process: its exit code is 0 only when
\* every upsert went through; a failure stops it before or after the genes
SampleImportOutcomes == {"ok", "failed", "failed after genes"}

SampleImportResult(d, outcome) ==
  IF outcome = "ok" THEN importSampleData(d)
  ELSE IF outcome = "failed after genes"
       THEN [d EXCEPT !.genes = UpsertGenes(d.genes, sampleGenes)]
       ELSE d

\* the data import scripts run by hand before the start script
PriorImportGff(sampleDone) == run = NoRun /\ ImportGff(sampleDone)

PriorImportTdna == run = NoRun /\ ImportTdna

\* node check-database-and-start.js: main() calls checkDatabase()
StartMain ==
  /\ run = NoRun
  /\ run' = [script |-> "start", pc |-> "check", check |-> "running",
             isEmpty |-> FALSE, at1g25320Missing |-> FALSE,
             import |-> "not started", server |-> "not started"]
  /\ UNCHANGED <<files, data, resp, tdna_env, global_env, page, db>>

\* the exec callback of checkDatabase: an exec error rejects, main's catch
\* calls process.exit(1); otherwise main goes on with the two flags
CheckDatabaseExits(execError, dbError) ==
  /\ run.script = "start" /\ run.pc = "check"
  /\ LET r == checkDatabase(CheckDatabaseStdout(db, dbError))
     IN run' = IF execError
               THEN [run EXCEPT !.pc = "exit1", !.check = "failed"]
               ELSE [run EXCEPT !.pc = AfterCheck(r.isEmpty, r.at1g25320Missing),
                                !.check = "ok", !.isEmpty = r.isEmpty,
                                !.at1g25320Missing = r.at1g25320Missing,
                                !.import = IF r.isEmpty \/ r.at1g25320Missing
                                           THEN "running" ELSE "not started"]
  /\ UNCHANGED <<files, data, resp, tdna_env, global_env, page, db>>

\* runCommand settles when the child closes; a rejection is caught by the
\* inner try/catch and main continues to the spawn of the server
SampleImportExits(outcome) ==
  /\ run.script = "start" /\ run.pc = "import"
  /\ outcome = "ok" => Len(db.positions) + Len(sampleTDNALines) <= MaxPositions
  /\ db' = SampleImportResult(db, outcome)
  /\ run' = [run EXCEPT !.pc = "server", !.import = outcome]
  /\ UNCHANGED <<files, data, resp, tdna_env, global_env, page>>

\* spawn('npm', ['start'], {cwd: server})
SpawnServer ==
  /\ run.script = "start" /\ run.pc = "server"
  /\ run' = [run EXCEPT !.pc = "done", !.server = "running"]
  /\ UNCHANGED <<files, data, resp, tdna_env, global_env, page, db>>

NextStart ==
  \/ \E sampleDone \in BOOLEAN : PriorImportGff(sampleDone)
  \/ PriorImportTdna
  \/ StartMain
  \/ \E execError \in BOOLEAN, dbError \in BOOLEAN : CheckDatabaseExits(execError, dbError)
  \/ \E outcome \in SampleImportOutcomes : SampleImportExits(outcome)
  \/ SpawnServer

SpecStart == InitServer /\ [][NextStart]_vars

\* C27: the server runs only when the database check has completed
\* without an exec error, and, when the check reported an empty gene table
\* or a missing AT1G25320, only when the sample-gene import has ended (with
\* success or with a failure); after a failed check the server never runs.
C27_ServerAfterCheckAndImport ==
  run.script = "start" =>
    /\ run.server = "running" =>
         /\ run.check = "ok"
         /\ (run.isEmpty \/ run.at1g25320Missing) => run.import \in SampleImportOutcomes
    /\ run.check = "failed" => run.server = "not started" /\ run.pc = "exit1"
    /\ run.import = "running" => run.server = "not started"

C27_Witness ==
  /\ run.script = "start" /\ run.server = "running"
  /\ run.at1g25320Missing /\ ~run.isEmpty
  /\ run.import = "failed"

\* ---------------------------------------------------------------------
\* getData() after a load() that threw
\* ---------------------------------------------------------------------

\* a call that got a handle from getData() and did not throw
HandedOut ==
  \/ resp.op \in {"getTDNAlines", "getTDNALineDetails", "getGeneData"} /\ ~resp.threw
  \/ resp.op = "handler" /\ resp.status \in {200, 404}

\* C28: every handle that getData() hands out is fully loaded: its three
\* tables are the parsed contents of the three files, also when an earlier
\* call's load() threw.
C28_OnlyFullyLoaded ==
  HandedOut =>
    /\ ~LocationThrows(files.location)
    /\ data = [isNull |-> FALSE] @@ load(files)

\* ---------------------------------------------------------------------
\* web/client/src/pages/HomePage.tsx: the gene selection and its two fetches
\* ---------------------------------------------------------------------
MaxSelect == 3

ClientGenes == {"AT1G25320", "AT3G15500"}

\* useState: nothing selected, no lines, no visualization data
MountedPage ==
  [open |-> TRUE, selectedGeneId |-> "null", tdnaLines |-> <<>>,
   visualizationData |-> NullBundle, loadingTdnaLines |-> FALSE,
   loadingVisualization |-> FALSE, inflight |-> {}, selections |-> 0]

OpenPage ==
  /\ page = NoPage
  /\ page' = MountedPage
  /\ UNCHANGED <<files, data, resp, tdna_env, global_env, run, db>>

\* handleGeneSelect sets selectedGeneId; the effect of [selectedGeneId] then
\* starts fetchTDNALines and fetchVisualizationData, each of which clears its
\* state and awaits its request.  Setting the id already selected renders
\* nothing anew and runs no effect.
handleGeneSelect(geneId) ==
  /\ page.open /\ page.selections < MaxSelect
  /\ geneId # page.selectedGeneId
  /\ page' = [page EXCEPT
       !.selectedGeneId = geneId, !.selections = @ + 1,
       !.loadingTdnaLines = TRUE, !.tdnaLines = <<>>,
       !.loadingVisualization = TRUE, !.visualizationData = NullBundle,
       !.inflight = @ \cup { [kind |-> "lines", gene |-> geneId, n |-> page.selections + 1],
                             [kind |-> "visualization", gene |-> geneId,
                              n |-> page.selections + 1] }]
  /\ UNCHANGED <<files, data, resp, tdna_env, global_env, run, db>>

\* the continuation of fetchTDNALines after await getTDNALines(id): the
\* lines are stored when the request succeeded, loading is cleared always
LinesResponse(geneId, n, fail) ==
  /\ page.open /\ [kind |-> "lines", gene |-> geneId, n |-> n] \in page.inflight
  /\ LET r == [kind |-> "lines", gene |-> geneId, n |-> n]
         answer == tdnaGene(geneId, fail)
     IN page' = [page EXCEPT
          !.inflight = @ \ {r},
          !.tdnaLines = IF answer.status = 200 THEN answer.rows ELSE @,
          !.loadingTdnaLines = FALSE]
  /\ UNCHANGED <<files, data, resp, tdna_env, global_env, run, db>>

\* the continuation of fetchVisualizationData after await getVisualizationData(id)
VisualizationResponse(geneId, n, fail) ==
  /\ page.open /\ [kind |-> "visualization", gene |-> geneId, n |-> n] \in page.inflight
  /\ LET r == [kind |-> "visualization", gene |-> geneId, n |-> n]
         answer == visualize(geneId, fail)
     IN page' = [page EXCEPT
          !.inflight = @ \ {r},
          !.visualizationData = IF answer.status = 200 THEN answer.bundle ELSE @,
          !.loadingVisualization = FALSE]
  /\ UNCHANGED <<files, data, resp, tdna_env, global_env, run, db>>

\* the browser reads no file
NoFiles == [gff |-> <<>>, confirmed |-> <<>>, location |-> <<>>]

InitClient ==
  /\ files = NoFiles
  /\ data = NullData
  /\ resp = NoResp
  /\ tdna_env = EmptyTdnaEnv
  /\ global_env = EmptyGlobalEnv
  /\ run = NoRun
  /\ page = NoPage
  /\ db \in {EmptyDb, importSampleData(EmptyDb)}

NextClient ==
  \/ OpenPage
  \/ \E geneId \in ClientGenes : handleGeneSelect(geneId)
  \/ \E geneId \in ClientGenes, n \in 1..MaxSelect, fail \in BOOLEAN :
       LinesResponse(geneId, n, fail)
  \/ \E geneId \in ClientGenes, n \in 1..MaxSelect, fail \in BOOLEAN :
       VisualizationResponse(geneId, n, fail)

SpecClient == InitClient /\ [][NextClient]_vars

\* C29: once no request is in flight, the displayed tdnaLines and
\* visualizationData both belong to the gene selected last, whatever the
\* order in which the responses came back.
C29_LatestGeneDisplayed ==
  (page.open /\ page.selectedGeneId # "null" /\ page.inflight = {}) =>
    /\ \A i \in 1..Len(page.tdnaLines) :
         page.tdnaLines[i].target_gene = page.selectedGeneId
    /\ ~page.visualizationData.isNull =>
         page.visualizationData.gene.id = page.selectedGeneId

\* ---------------------------------------------------------------------
\* the chromosome of a returned insertion
\* ---------------------------------------------------------------------

\* C30: every insertion returned for a gene lies on the chromosome of one
\* of the CDS features selected for the gene: a location row on another
\* chromosome is not returned, also when its position falls inside the CDS
\* range.
C30_SameChromosome ==
  (DetailsAnswered /\ ~data.isNull) =>
    LET cds == SelectSeq(GeneGff(data, resp.gene), LAMBDA g : g.type = "CDS")
    IN \A k \in 1..Len(resp.details) :
         \E i \in 1..Len(cds) : cds[i].chr = resp.details[k].chromosome

====
